---- MODULE Spec2Model ----
(***************************************************************************)
(* Model of the object-storage browser client:                             *)
(*   src/src/services/api.ts          credential check, error mapping      *)
(*   src/src/components/FileList.tsx  loadFiles, upload, delete, download  *)
(*   src/src/components/BucketList.tsx loadBuckets, handleCreateBucket     *)
(*                                                                         *)
(* One React component is under test per behaviour (component is chosen by *)
(* Init).  Its props are chosen by Init too.  Every asynchronous function  *)
(* of the component is a coroutine whose position is kept in a record; a   *)
(* step of the model is one event-loop task: a user event, a lifecycle     *)
(* event, or the arrival of one HTTP response together with everything the *)
(* awaiting code does until it awaits the network again.                   *)
(***************************************************************************)
EXTENDS Integers, Sequences, FiniteSets, TLC

(***************************************************************************)
(* Bounds of the model.                                                    *)
(***************************************************************************)
\* loadFiles invocations per behaviour (a load's number is its generation)
MaxLoads == 2
\* local files offered to handleFileSelect at once
MaxPending == 3
\* handleUpload, handleDelete, handleDownload, handlePreviewImage and
\* handleCreateBucket invocations per behaviour
MaxBatches == 1
\* length of the strings over TypedAlphabet given to the naming functions
MaxTyped == 4
\* successive applications of suggestAlternativeName to one string
MaxNormalize == 2

(***************************************************************************)
(* Values.                                                                 *)
(***************************************************************************)
\* JavaScript null (error state, missing credential)
Null == "null"

\* !x of JavaScript for a string-or-null value
Falsy(x) == x = "" \/ x = Null

\* a || b of JavaScript for strings
OrElse(a, b) == IF Falsy(a) THEN b ELSE a

Range(f) == {f[x] : x \in DOMAIN f}

\* the empty Record<string, string>
EmptyMap == [n \in {} |-> Null]

MapPut(m, k, v) == [n \in DOMAIN m \cup {k} |-> IF n = k THEN v ELSE m[n]]

(***************************************************************************)
(* The remote service, seen from the client: what a response may carry.    *)
(***************************************************************************)
Buckets == {"b1", "b2"}

\* the credential values a parent may pass as props
CredentialValues == {Null, "", "key"}

\* file names as the characters the string methods see
NameChars(n) ==
    CASE n = "a.png" -> <<"a", ".", "p", "n", "g">>
      [] n = "b.txt" -> <<"b", ".", "t", "x", "t">>
      [] n = "c.JPG" -> <<"c", ".", "J", "P", "G">>
      [] n = "d.gif" -> <<"d", ".", "g", "i", "f">>
      [] OTHER -> <<>>

\* the arrays a successful listing of a bucket may return; the service's
\* content changes between loads, so each response picks one
Listings(b) ==
    IF b = "b1" THEN {<<"a.png", "b.txt">>, <<"b.txt">>}
    ELSE {<<"c.JPG", "d.gif">>}

\* the bodies a successful listing response may carry: an array, or not one
ListingBodies(b) ==
    {[isArray |-> TRUE, data |-> l] : l \in Listings(b)}
        \cup {[isArray |-> FALSE, data |-> <<>>]}

\* the body of a successful metadata response for a file
ServerMetadata(n) ==
    CASE n = "a.png" -> [tags |-> <<[key |-> "owner", value |-> "alice"]>>]
      [] n = "b.txt" -> [contentType |-> "text/plain"]
      [] OTHER -> [tags |-> <<[key |-> "Kind", value |-> "Photo"]>>]

\* what the transport throws: an AxiosError with or without a response body
\* message, or something that is no AxiosError
TransportErrors ==
    { [isAxiosError |-> TRUE, dataMessage |-> "Bucket not found",
       message |-> "Request failed with status code 404"],
      [isAxiosError |-> TRUE, dataMessage |-> "", message |-> "Network Error"] }

(***************************************************************************)
(* src/src/services/api.ts                                                 *)
(***************************************************************************)
CredentialsMessage == "Access Key and Secret Key are required for authentication."

validateCredentialsAnyKey(ak, sk) == ~(Falsy(ak) /\ Falsy(sk))

\* TRUE when validateCredentials returns, FALSE when it throws
validateCredentials(ak, sk) == ~(Falsy(ak) \/ Falsy(sk))

\* the message of the Error that handleApiError throws
handleApiError(e) ==
    IF e.isAxiosError
    THEN OrElse(e.dataMessage, OrElse(e.message, "An unexpected error occurred"))
    ELSE "Unknown error occurred"

\* a request handed to the HTTP transport, with its credential headers
Request(kind, bkt, name, ld, ak, sk) ==
    [kind |-> kind, bucket |-> bkt, name |-> name, load |-> ld,
     accessKey |-> ak, secretKey |-> sk]

(***************************************************************************)
(* src/src/components/FileList.tsx: pure helpers                           *)
(***************************************************************************)
UpperCase ==
    <<"A", "B", "C", "D", "E", "F", "G", "H", "I", "J", "K", "L", "M",
      "N", "O", "P", "Q", "R", "S", "T", "U", "V", "W", "X", "Y", "Z">>
LowerCase ==
    <<"a", "b", "c", "d", "e", "f", "g", "h", "i", "j", "k", "l", "m",
      "n", "o", "p", "q", "r", "s", "t", "u", "v", "w", "x", "y", "z">>
Digits == {"0", "1", "2", "3", "4", "5", "6", "7", "8", "9"}

ToLowerChar(c) ==
    IF \E i \in 1..26 : UpperCase[i] = c
    THEN LowerCase[CHOOSE i \in 1..26 : UpperCase[i] = c]
    ELSE c

toLowerCase(s) == [i \in 1..Len(s) |-> ToLowerChar(s[i])]

\* s.split('.').pop(): the characters after the last '.', all of s without one
LastSegment(s) ==
    LET dots == {i \in 1..Len(s) : s[i] = "."}
        from == IF dots = {} THEN 1
                ELSE (CHOOSE i \in dots : \A j \in dots : j <= i) + 1
    IN  SubSeq(s, from, Len(s))

ImageExtensions ==
    { <<"j", "p", "g">>, <<"j", "p", "e", "g">>, <<"p", "n", "g">>,
      <<"g", "i", "f">>, <<"w", "e", "b", "p">> }

isImageFile(filename) ==
    LastSegment(toLowerCase(NameChars(filename))) \in ImageExtensions

\* a FileData of the listing: no tags, no metadata yet
FileData(n) == [name |-> n, tags |-> <<>>, metadata |-> <<>>]

\* { ...file, tags: metadata.tags || [], metadata: metadata }
WithMetadata(file, md) ==
    [file EXCEPT !.tags = IF "tags" \in DOMAIN md THEN md.tags ELSE <<>>,
                 !.metadata = <<md>>]

(***************************************************************************)
(* State.                                                                  *)
(***************************************************************************)
VARIABLES
    component,          \* the component under test
    user,               \* what the user of this behaviour does with it
    phase,              \* "init" (rendered once), "mounted", "unmounted"
    bucketName, accessKey, secretKey,       \* props
    files, imageObjectUrls, loading, error, \* FileList useState
    uploading, showTagModal, selectedFiles, selectedFileTags,
    selectedFileNames, progress,
    previewImage,       \* <<>> (null) or <<the URL previewImage returned>>
    imagePreview,       \* <<>> or <<the useState of the rendered ImagePreview>>
    loads,              \* the loadFiles invocations, in start order
    batch,              \* the handleUpload, handleDelete or handleDownload
                        \* invocation started last
    batches,            \* how many of them have started
    net,                \* requests in flight
    liveUrls,           \* object URLs created and not revoked
    releasedTwice,      \* object URLs revoked when no longer live
    buckets, bucketsLoading, bucketsError,  \* BucketList useState
    lastAlert,          \* <<>> or <<what the alert() of the last
                        \* handleCreateBucket showed, and the requests that
                        \* were in flight when it was shown>>
    typedName,          \* the string the two naming functions are applied to
    violation,          \* <<>> or <<what validateBucketName(typedName) returned>>
    normalized,         \* how often suggestAlternativeName produced typedName
    lastConfirm,        \* <<>> or <<what window.confirm returned last>>
    searchQuery,        \* FileList useState: the characters typed in the search box
    responses           \* <<>> or <<what the service answers to each request of
                        \* the load, when that is fixed beforehand>>

vars ==
    <<component, user, phase, bucketName, accessKey, secretKey, files,
      imageObjectUrls, loading, error, uploading, showTagModal, selectedFiles,
      selectedFileTags, selectedFileNames, progress, previewImage,
      imagePreview, loads, batch, batches, net, liveUrls, releasedTwice,
      buckets, bucketsLoading, bucketsError, lastAlert, typedName, violation,
      normalized, lastConfirm, searchQuery, responses>>

namingVars == <<typedName, violation, normalized>>
propVars == <<component, user, bucketName, accessKey, secretKey>>
bucketListVars == <<buckets, bucketsLoading, bucketsError, lastAlert>>
uploadVars ==
    <<uploading, showTagModal, selectedFiles, selectedFileTags, progress>>
urlVars == <<imageObjectUrls, liveUrls, releasedTwice>>
previewVars == <<previewImage, imagePreview>>

\* a state setter: React drops updates of an unmounted component
Set(old, new) == IF phase # "unmounted" THEN new ELSE old

\* a batch coroutine: its handler, its captured bucket and target list, the
\* targets for which a request has been issued so far, and the
\* selectedFileTags its closure holds (handleUpload hands them to uploadFile)
Batch(kind, pc, bkt, targets, sent) ==
    [kind |-> kind, pc |-> pc, bucket |-> bkt, targets |-> targets, sent |-> sent,
     tags |-> selectedFileTags]

BatchRunning == batch.pc \in {"sending", "reloading"}

\* the model starts one batch at a time, MaxBatches in all
MayStartBatch == ~BatchRunning /\ batches < MaxBatches

RECURSIVE Gcd(_, _)
Gcd(a, b) == IF b = 0 THEN a ELSE Gcd(b, a % b)

\* Percent computed from the loop index i instead of i + 1
PercentOfIndex(completed, total) ==
    LET g == Gcd((completed - 1) * 100, total)
    IN  [num |-> ((completed - 1) * 100) \div g, den |-> total \div g]

\* (completed / total) * 100 as an exact fraction in lowest terms
Percent(completed, total) ==
    LET g == Gcd(completed * 100, total)
    IN  [num |-> (completed * 100) \div g, den |-> total \div g]

\* the number 0 of setProgress(0)
Zero == [num |-> 0, den |-> 1]

\* A behaviour follows one user: one who browses (changes the bucket at any
\* time), one who selects (checks files, changes the bucket between loads),
\* one who opens previews, one who uploads, one who deletes, one who
\* downloads, one who searches.  All of them may
\* dismiss the error and leave the view.
FileListUsers ==
    {"browse", "select", "preview", "upload", "delete", "download", "search"}

Init ==
    /\ component \in {"FileList", "BucketList"}
    /\ user \in (IF component = "FileList" THEN FileListUsers ELSE {"buckets"})
    /\ phase = "init"
    /\ bucketName \in (IF component = "FileList" THEN Buckets ELSE {""})
    /\ accessKey \in CredentialValues
    /\ secretKey \in CredentialValues
    /\ files = <<>>
    /\ imageObjectUrls = EmptyMap
    /\ loading = TRUE
    /\ error = Null
    /\ uploading = FALSE
    /\ showTagModal = FALSE
    /\ selectedFiles = <<>>
    /\ selectedFileTags = <<>>
    /\ selectedFileNames = <<>>
    /\ progress = Zero
    /\ previewImage = <<>>
    /\ imagePreview = <<>>
    /\ loads = <<>>
    /\ batch = Batch("none", "idle", "", <<>>, <<>>)
    /\ batches = 0
    /\ net = {}
    /\ liveUrls = {}
    /\ releasedTwice = {}
    /\ buckets = <<>>
    /\ bucketsLoading = TRUE
    /\ bucketsError = Null
    /\ lastAlert = <<>>
    /\ typedName = <<>>
    /\ violation = <<>>
    /\ normalized = 0
    /\ lastConfirm = <<>>
    /\ searchQuery = <<>>
    /\ responses = <<>>

(***************************************************************************)
(* FileList: loadFiles                                                     *)
(***************************************************************************)
LoadDone == {"ready", "failed"}

\* loads started or still owed by a running upload or delete
LoadBudget ==
    Len(loads) + (IF batch.pc = "sending" /\ batch.kind # "download" THEN 1 ELSE 0)

NewLoad(caller, bkt) ==
    [caller |-> caller, bucket |-> bkt, pc |-> "listing", filesData |-> <<>>,
     filesWithTags |-> <<>>, metadataErrors |-> {},
     newImageObjectUrls |-> EmptyMap]

\* a load that is over keeps no locals
Finished(load, pc) ==
    [load EXCEPT !.pc = pc, !.filesData = <<>>, !.filesWithTags = <<>>,
                 !.metadataErrors = {}, !.newImageObjectUrls = EmptyMap]

\* AfterLoad without setSelectedFiles([]) after the upload's reload
AfterLoadKeepsPending(caller, over) ==
    IF over /\ caller = "upload"
    THEN /\ selectedFiles' = selectedFiles
         /\ selectedFileTags' = Set(selectedFileTags, <<>>)
         /\ showTagModal' = Set(showTagModal, FALSE)
         /\ uploading' = Set(uploading, FALSE)
         /\ progress' = Set(progress, Zero)
         /\ batch' = [batch EXCEPT !.pc = "done"]
         /\ UNCHANGED selectedFileNames
    ELSE IF over /\ caller = "delete"
    THEN /\ selectedFileNames' = Set(selectedFileNames, <<>>)
         /\ batch' = [batch EXCEPT !.pc = "done"]
         /\ UNCHANGED uploadVars
    ELSE UNCHANGED <<uploadVars, selectedFileNames, batch>>

\* what runs after `await loadFiles()` in the caller, once the load is over
AfterLoad(caller, over) ==
    IF over /\ caller = "upload"
    THEN /\ selectedFiles' = Set(selectedFiles, <<>>)
         /\ selectedFileTags' = Set(selectedFileTags, <<>>)
         /\ showTagModal' = Set(showTagModal, FALSE)
         /\ uploading' = Set(uploading, FALSE)
         /\ progress' = Set(progress, Zero)
         /\ batch' = [batch EXCEPT !.pc = "done"]
         /\ UNCHANGED selectedFileNames
    ELSE IF over /\ caller = "delete"
    THEN /\ selectedFileNames' = Set(selectedFileNames, <<>>)
         /\ batch' = [batch EXCEPT !.pc = "done"]
         /\ UNCHANGED uploadVars
    ELSE UNCHANGED <<uploadVars, selectedFileNames, batch>>

\* loadFiles up to its first await of the network: loading, error, and the
\* listing request unless getFiles throws on the credentials.  netNow is the
\* set of requests in flight when loadFiles is called.
StartLoad(caller, bkt, netNow) ==
    LET id == Len(loads) + 1 IN
    IF validateCredentials(accessKey, secretKey)
    THEN /\ loads' = Append(loads, NewLoad(caller, bkt))
         /\ net' = netNow \cup {Request("list", bkt, "", id, accessKey, secretKey)}
         /\ loading' = Set(loading, TRUE)
         /\ error' = Set(error, Null)
    ELSE /\ loads' = Append(loads, Finished(NewLoad(caller, bkt), "failed"))
         /\ net' = netNow
         /\ loading' = Set(loading, FALSE)
         /\ error' = Set(error, CredentialsMessage)

\* useEffect(() => { loadFiles() }, [bucketName]) after the first render
Mount ==
    /\ component = "FileList"
    /\ phase = "init"
    /\ phase' = "mounted"
    /\ StartLoad("effect", bucketName, net)
    /\ UNCHANGED <<propVars, namingVars, searchQuery, responses, lastConfirm, batches, files, urlVars, uploadVars, selectedFileNames, batch,
                   bucketListVars,
                   previewVars>>

\* the parent passes another bucketName: the effect runs loadFiles again
SwitchBucket(b) ==
    /\ component = "FileList"
    /\ \/ user = "browse"
       \/ user = "select" /\ \A ld \in 1..Len(loads) : loads[ld].pc \in LoadDone
    /\ phase = "mounted"
    /\ b # bucketName
    /\ LoadBudget < MaxLoads
    /\ bucketName' = b
    /\ StartLoad("effect", b, net)
    /\ UNCHANGED <<component, user, accessKey, secretKey, namingVars, searchQuery, responses, lastConfirm,
                   batches, phase, files, urlVars,
                   uploadVars, selectedFileNames, batch, bucketListVars,
                   previewVars>>

\* the cleanup of useEffect(..., [imageObjectUrls]): revoke every URL of map
Revoked(map, live) == live \ Range(map)
RevokedAgain(map, live) == Range(map) \ live

\* setImageObjectUrls(newMap) on a mounted component: the effect's cleanup
\* revokes the URLs of the map it replaces.  live: the URLs live at the call.
CommitUrls(newMap, live) ==
    IF phase # "unmounted"
    THEN /\ imageObjectUrls' = newMap
         /\ liveUrls' = Revoked(imageObjectUrls, live)
         /\ releasedTwice' = releasedTwice \cup RevokedAgain(imageObjectUrls, live)
    ELSE /\ imageObjectUrls' = imageObjectUrls
         /\ liveUrls' = live
         /\ releasedTwice' = releasedTwice

\* the component is removed: the last effect's cleanup runs; coroutines go on
Unmount ==
    /\ component = "FileList"
    /\ phase = "mounted"
    /\ phase' = "unmounted"
    /\ liveUrls' = Revoked(imageObjectUrls, liveUrls)
    /\ releasedTwice' = releasedTwice \cup RevokedAgain(imageObjectUrls, liveUrls)
    /\ UNCHANGED <<propVars, namingVars, searchQuery, responses, lastConfirm, batches, files, imageObjectUrls, loading, error, uploadVars,
                   selectedFileNames, batch, loads, net, bucketListVars,
                   previewVars>>

ListRequests == {r \in net : r.kind = "list"}

\* ListFailure without the finally block of loadFiles
ListFailureStaysLoading(r, e) ==
    /\ r \in ListRequests
    /\ e \in TransportErrors
    /\ net' = net \ {r}
    /\ loads' = [loads EXCEPT ![r.load] = Finished(@, "failed")]
    /\ error' = Set(error, OrElse(handleApiError(e), "Failed to load files."))
    /\ loading' = loading
    /\ AfterLoad(loads[r.load].caller, TRUE)
    /\ UNCHANGED <<propVars, namingVars, searchQuery, responses, lastConfirm, batches, phase, files, urlVars, bucketListVars,
                   previewVars>>

\* getFiles rejects: catch sets the error, finally clears loading
ListFailure(r, e) ==
    /\ r \in ListRequests
    /\ e \in TransportErrors
    /\ net' = net \ {r}
    /\ loads' = [loads EXCEPT ![r.load] = Finished(@, "failed")]
    /\ error' = Set(error, OrElse(handleApiError(e), "Failed to load files."))
    /\ loading' = Set(loading, FALSE)
    /\ AfterLoad(loads[r.load].caller, TRUE)
    /\ UNCHANGED <<propVars, namingVars, searchQuery, responses, lastConfirm, batches, phase, files, urlVars, bucketListVars,
                   previewVars>>

\* getFiles resolves with Array.isArray(body) ? body : []: one metadata
\* request per file; an empty listing completes the load at once
ListSuccess(r, body) ==
    /\ r \in ListRequests
    /\ body \in ListingBodies(r.bucket)
    /\ LET names == IF body.isArray THEN body.data ELSE <<>>
           filesData == [i \in 1..Len(names) |-> FileData(names[i])]
           over == filesData = <<>>
       IN  /\ loads' = [loads EXCEPT ![r.load] =
                  IF over THEN Finished(@, "ready")
                  ELSE [@ EXCEPT !.filesData = filesData,
                                 !.filesWithTags = [i \in 1..Len(names) |-> <<>>],
                                 !.pc = "metadata"]]
           /\ net' = (net \ {r}) \cup
                  { Request("metadata", r.bucket, names[i], r.load,
                            r.accessKey, r.secretKey) : i \in 1..Len(names) }
           /\ IF over
              THEN /\ files' = Set(files, <<>>)
                   /\ CommitUrls(EmptyMap, liveUrls)
                   /\ loading' = Set(loading, FALSE)
              ELSE UNCHANGED <<files, urlVars, loading>>
           /\ AfterLoad(loads[r.load].caller, over)
    /\ UNCHANGED <<propVars, namingVars, searchQuery, responses, lastConfirm, batches, phase, error, bucketListVars,
                   previewVars>>

MetadataRequests == {r \in net : r.kind = "metadata"}

\* the position of file `name` in the listing of load ld
IndexOf(ld, name) ==
    CHOOSE i \in 1..Len(loads[ld].filesData) : loads[ld].filesData[i].name = name

\* the names a listing can carry, and those of them isImageFile accepts
ListedNames == UNION {Range(l) : l \in UNION {Listings(b) : b \in Buckets}}
ImageNames == {n \in ListedNames : isImageFile(n)}

\* the preview requests of loadImageWithHeaders for the image files of entries
\* (isImageFile(file.name), looked up in ImageNames): fetch() with the
\* credential headers, no validateCredentials before it
PreviewRequests(ld, bkt, entries) ==
    { Request("preview", bkt, entries[i].name, ld, accessKey, secretKey) :
          i \in {j \in 1..Len(entries) : entries[j].name \in ImageNames} }

\* what the map callback of loadFiles returns for a file whose
\* getFileMetadata settled with md (<<>>: it rejected)
MetadataResult(file, md) == IF md = <<>> THEN file ELSE WithMetadata(file, md[1])

\* MetadataResponse without the try/catch of the map callback: a rejected
\* getFileMetadata rejects Promise.all, and loadFiles ends in its catch
MetadataResponseRejects(r, md) ==
    /\ r \in MetadataRequests
    /\ md \in {<<>>, <<ServerMetadata(r.name)>>}
    /\ LET ld == r.load
           i == IndexOf(ld, r.name)
           file == loads[ld].filesData[i]
           settled == [loads[ld].filesWithTags EXCEPT
                           ![i] = <<MetadataResult(file, md)>>]
           all == \A j \in 1..Len(settled) : settled[j] # <<>>
           filesWithTags == [j \in 1..Len(settled) |-> settled[j][1]]
           previews == IF all THEN PreviewRequests(ld, r.bucket, filesWithTags)
                       ELSE {}
           over == all /\ previews = {}
       IN  IF md = <<>>
           THEN /\ loads' = [loads EXCEPT ![ld] = Finished(@, "failed")]
                /\ net' = net \ {q \in net : q.kind = "metadata" /\ q.load = ld}
                /\ error' = Set(error, "Failed to load files.")
                /\ loading' = Set(loading, FALSE)
                /\ UNCHANGED <<files, urlVars>>
                /\ AfterLoad(loads[ld].caller, TRUE)
           ELSE /\ loads' = [loads EXCEPT ![ld] =
                       IF over THEN Finished(@, "ready")
                       ELSE IF all THEN Finished(@, "previews")
                       ELSE [@ EXCEPT !.filesWithTags = settled]]
                /\ net' = (net \ {r}) \cup previews
                /\ files' = IF all THEN Set(files, filesWithTags) ELSE files
                /\ IF over
                   THEN /\ CommitUrls(EmptyMap, liveUrls)
                        /\ loading' = Set(loading, FALSE)
                   ELSE UNCHANGED <<urlVars, loading>>
                /\ error' = error
                /\ AfterLoad(loads[ld].caller, over)
    /\ UNCHANGED <<propVars, namingVars, searchQuery, responses, lastConfirm, batches, phase, bucketListVars, previewVars>>

\* MetadataResponse with the results pushed to an array as they arrive
\* instead of Promise.all's array in the order of the listing
MetadataResponseArrivalOrder(r, md) ==
    /\ r \in MetadataRequests
    /\ md \in {<<>>, <<ServerMetadata(r.name)>>}
    /\ LET ld == r.load
           i == IndexOf(ld, r.name)
           file == loads[ld].filesData[i]
           result == MetadataResult(file, md)
           earlier == loads[ld].filesWithTags
           k == CHOOSE j \in 1..Len(earlier) :
                    earlier[j] = <<>> /\ \A l \in 1..(j - 1) : earlier[l] # <<>>
           settled == [earlier EXCEPT ![k] = <<result>>]
           all == \A j \in 1..Len(settled) : settled[j] # <<>>
           filesWithTags == [j \in 1..Len(settled) |-> settled[j][1]]
           previews == IF all THEN PreviewRequests(ld, r.bucket, filesWithTags)
                       ELSE {}
           over == all /\ previews = {}
       IN  /\ loads' = [loads EXCEPT ![ld] =
                  IF over THEN Finished(@, "ready")
                  ELSE IF all
                  THEN Finished(@, "previews")
                  ELSE [@ EXCEPT !.filesWithTags = settled,
                                 !.metadataErrors =
                                     IF md = <<>> THEN @ \cup {r.name} ELSE @]]
           /\ net' = (net \ {r}) \cup previews
           /\ files' = IF all THEN Set(files, filesWithTags) ELSE files
           /\ IF over
              THEN /\ CommitUrls(EmptyMap, liveUrls)
                   /\ loading' = Set(loading, FALSE)
              ELSE UNCHANGED <<urlVars, loading>>
           /\ AfterLoad(loads[ld].caller, over)
    /\ UNCHANGED <<propVars, namingVars, searchQuery, responses, lastConfirm, batches, phase, error, bucketListVars,
                   previewVars>>

\* MetadataResponse with the two map callbacks of loadFiles fused: the
\* preview of an image file is fetched as soon as its own metadata settled
MetadataResponseEager(r, md) ==
    /\ r \in MetadataRequests
    /\ md \in {<<>>, <<ServerMetadata(r.name)>>}
    /\ LET ld == r.load
           i == IndexOf(ld, r.name)
           file == loads[ld].filesData[i]
           result == MetadataResult(file, md)
           settled == [loads[ld].filesWithTags EXCEPT ![i] = <<result>>]
           all == \A j \in 1..Len(settled) : settled[j] # <<>>
           filesWithTags == [j \in 1..Len(settled) |-> settled[j][1]]
           previews == PreviewRequests(ld, r.bucket, <<result>>)
           over == all /\ ~(\E q \in net \cup previews :
                                q.kind = "preview" /\ q.load = ld)
       IN  /\ loads' = [loads EXCEPT ![ld] =
                  IF over THEN Finished(@, "ready")
                  ELSE IF all
                  THEN Finished(@, "previews")
                  ELSE [@ EXCEPT !.filesWithTags = settled,
                                 !.metadataErrors =
                                     IF md = <<>> THEN @ \cup {r.name} ELSE @]]
           /\ net' = (net \ {r}) \cup previews
           /\ files' = IF all THEN Set(files, filesWithTags) ELSE files
           /\ IF over
              THEN /\ CommitUrls(EmptyMap, liveUrls)
                   /\ loading' = Set(loading, FALSE)
              ELSE UNCHANGED <<urlVars, loading>>
           /\ AfterLoad(loads[ld].caller, over)
    /\ UNCHANGED <<propVars, namingVars, searchQuery, responses, lastConfirm, batches, phase, error, bucketListVars,
                   previewVars>>

\* one getFileMetadata settles (md = <<>>: it rejected; the callback logs it
\* with console.error and returns the file as listed).  When it is the last one, Promise.all
\* resolves: setFiles, then one preview fetch per image file; with no image
\* file the load completes at once
MetadataResponse(r, md) ==
    /\ r \in MetadataRequests
    /\ md \in {<<>>, <<ServerMetadata(r.name)>>}
    /\ LET ld == r.load
           i == IndexOf(ld, r.name)
           file == loads[ld].filesData[i]
           result == MetadataResult(file, md)
           settled == [loads[ld].filesWithTags EXCEPT ![i] = <<result>>]
           all == \A j \in 1..Len(settled) : settled[j] # <<>>
           filesWithTags == [j \in 1..Len(settled) |-> settled[j][1]]
           previews == IF all THEN PreviewRequests(ld, r.bucket, filesWithTags)
                       ELSE {}
           over == all /\ previews = {}
       IN  /\ loads' = [loads EXCEPT ![ld] =
                  IF over THEN Finished(@, "ready")
                  ELSE IF all
                  THEN Finished(@, "previews")
                  ELSE [@ EXCEPT !.filesWithTags = settled,
                                 !.metadataErrors =
                                     IF md = <<>> THEN @ \cup {r.name} ELSE @]]
           /\ net' = (net \ {r}) \cup previews
           /\ files' = IF all THEN Set(files, filesWithTags) ELSE files
           /\ IF over
              THEN /\ CommitUrls(EmptyMap, liveUrls)
                   /\ loading' = Set(loading, FALSE)
              ELSE UNCHANGED <<urlVars, loading>>
           /\ AfterLoad(loads[ld].caller, over)
    /\ UNCHANGED <<propVars, namingVars, searchQuery, responses, lastConfirm, batches, phase, error, bucketListVars,
                   previewVars>>

\* URL.createObjectURL(blob): a URL no earlier call returned
\* (by: the caller, id: its invocation)
createObjectURL(by, id, name) == [by |-> by, load |-> id, name |-> name]

\* PreviewResponse without the try/catch of loadImageWithHeaders: a failed
\* fetch rejects Promise.all, and loadFiles ends in its catch
PreviewResponseRejects(r, ok) ==
    /\ r \in {q \in net : q.kind = "preview"}
    /\ LET ld == r.load
           objectUrl == createObjectURL("loadImageWithHeaders", ld, r.name)
           newImageObjectUrls ==
               MapPut(loads[ld].newImageObjectUrls, r.name, objectUrl)
           over == ~(\E q \in net \ {r} : q.kind = "preview" /\ q.load = ld)
       IN  IF ~ok
           THEN /\ loads' = [loads EXCEPT ![ld] = Finished(@, "failed")]
                /\ net' = net \ {q \in net : q.kind = "preview" /\ q.load = ld}
                /\ error' = Set(error, "Failed to fetch image")
                /\ loading' = Set(loading, FALSE)
                /\ UNCHANGED urlVars
                /\ AfterLoad(loads[ld].caller, TRUE)
           ELSE /\ loads' = [loads EXCEPT ![ld] =
                       IF over THEN Finished(@, "ready")
                       ELSE [@ EXCEPT !.newImageObjectUrls = newImageObjectUrls]]
                /\ net' = net \ {r}
                /\ error' = error
                /\ IF over
                   THEN /\ CommitUrls(newImageObjectUrls, liveUrls \cup {objectUrl})
                        /\ loading' = Set(loading, FALSE)
                   ELSE /\ liveUrls' = liveUrls \cup {objectUrl}
                        /\ UNCHANGED <<imageObjectUrls, releasedTwice, loading>>
                /\ AfterLoad(loads[ld].caller, over)
    /\ UNCHANGED <<propVars, namingVars, searchQuery, responses, lastConfirm, batches, phase, files, bucketListVars,
                   previewVars>>

\* one loadImageWithHeaders settles: with a 2xx response it creates an object
\* URL, kept under the file's name; otherwise it returns null.  When it is
\* the last one, setImageObjectUrls(newImageObjectUrls) and loading is cleared
PreviewResponse(r, ok) ==
    /\ r \in {q \in net : q.kind = "preview"}
    /\ LET ld == r.load
           objectUrl == createObjectURL("loadImageWithHeaders", ld, r.name)
           newImageObjectUrls ==
               IF ok THEN MapPut(loads[ld].newImageObjectUrls, r.name, objectUrl)
               ELSE loads[ld].newImageObjectUrls
           live == IF ok THEN liveUrls \cup {objectUrl} ELSE liveUrls
           over == ~(\E q \in net \ {r} : q.kind = "preview" /\ q.load = ld)
       IN  /\ loads' = [loads EXCEPT ![ld] =
                  IF over THEN Finished(@, "ready")
                  ELSE [@ EXCEPT !.newImageObjectUrls = newImageObjectUrls]]
           /\ net' = net \ {r}
           /\ IF over
              THEN /\ CommitUrls(newImageObjectUrls, live)
                   /\ loading' = Set(loading, FALSE)
              ELSE /\ liveUrls' = live
                   /\ UNCHANGED <<imageObjectUrls, releasedTwice, loading>>
           /\ AfterLoad(loads[ld].caller, over)
    /\ UNCHANGED <<propVars, namingVars, searchQuery, responses, lastConfirm, batches, phase, files, error, bucketListVars,
                   previewVars>>

(***************************************************************************)
(* FileList: what the user can do.  While loading is true the component    *)
(* renders only "Loading files...", so no control of the list is there.    *)
(***************************************************************************)
Interactive == component = "FileList" /\ phase = "mounted" /\ ~loading

\* the tag modal is rendered
ModalShown == showTagModal /\ selectedFiles # <<>>

\* the File objects the user can pick
LocalFiles == <<"u1.png", "u2.png", "u3.png", "u4.png">>
PendingLists == {SubSeq(LocalFiles, 1, n) : n \in 0..MaxPending}
TagChoices == {<<>>, <<[key |-> "env", value |-> "prod"]>>}

handleFileSelect(fileList) ==
    /\ Interactive
    /\ user \in {"upload"}
    /\ fileList \in PendingLists
    /\ selectedFiles' = fileList
    /\ showTagModal' = TRUE
    /\ UNCHANGED <<propVars, namingVars, searchQuery, responses, lastConfirm, batches, phase, files, urlVars, loading, error, uploading,
                   selectedFileTags, progress, selectedFileNames, batch,
                   loads, net, bucketListVars,
                   previewVars>>

\* onTagsChange of the tag modal
TagsChange(tags) ==
    /\ Interactive
    /\ user \in {"upload"}
    /\ ModalShown
    /\ tags \in TagChoices \ {selectedFileTags}
    /\ selectedFileTags' = tags
    /\ UNCHANGED <<propVars, namingVars, searchQuery, responses, lastConfirm, batches, phase, files, urlVars, loading, error, uploading,
                   showTagModal, selectedFiles, progress, selectedFileNames, batch,
                   loads, net, bucketListVars,
                   previewVars>>

\* onClose of the tag modal
ModalClose ==
    /\ Interactive
    /\ user \in {"upload"}
    /\ ModalShown
    /\ showTagModal' = FALSE
    /\ selectedFiles' = <<>>
    /\ UNCHANGED <<propVars, namingVars, searchQuery, responses, lastConfirm, batches, phase, files, urlVars, loading, error, uploading,
                   selectedFileTags, progress, selectedFileNames, batch,
                   loads, net, bucketListVars,
                   previewVars>>

toggleFileSelection(fileName) ==
    /\ Interactive
    /\ user \in {"select", "delete", "download", "invoke"}
    /\ \E i \in 1..Len(files) : files[i].name = fileName
    /\ selectedFileNames' =
           IF \E i \in 1..Len(selectedFileNames) : selectedFileNames[i] = fileName
           THEN SelectSeq(selectedFileNames, LAMBDA name : name # fileName)
           ELSE Append(selectedFileNames, fileName)
    /\ UNCHANGED <<propVars, namingVars, searchQuery, responses, lastConfirm, batches, phase, files, urlVars, loading, error, uploadVars,
                   batch, loads, net, bucketListVars,
                   previewVars>>

\* the characters of the strings that tags and metadata carry
TextChars(str) ==
    CASE str = "owner" -> <<"o", "w", "n", "e", "r">>
      [] str = "alice" -> <<"a", "l", "i", "c", "e">>
      [] str = "Kind" -> <<"K", "i", "n", "d">>
      [] str = "Photo" -> <<"P", "h", "o", "t", "o">>
      [] str = "text/plain" -> <<"t", "e", "x", "t", "/", "p", "l", "a", "i", "n">>
      [] str = "env" -> <<"e", "n", "v">>
      [] str = "prod" -> <<"p", "r", "o", "d">>
      [] OTHER -> NameChars(str)

\* what the user may type in the search box
SearchQueries ==
    { <<>>, <<"P", "N", "G">>, <<"a">>, <<"k", "i", "n", "d">>,
      <<"T", "e", "x", "t">>, <<"o", "b", "j">>, <<"z">> }

\* onChange of the search box
SearchChange(query) ==
    /\ Interactive
    /\ user = "search"
    /\ query \in SearchQueries \ {searchQuery}
    /\ searchQuery' = query
    /\ UNCHANGED <<propVars, namingVars, responses, lastConfirm, batches, phase,
                   files, urlVars, loading, error, uploadVars, selectedFileNames,
                   batch, loads, net, bucketListVars, previewVars>>

\* s.includes(sub)
Contains(s, sub) ==
    \E i \in 1..(Len(s) - Len(sub) + 1) : SubSeq(s, i, i + Len(sub) - 1) = sub

\* ({}).toString()
ObjectToString ==
    <<"[", "o", "b", "j", "e", "c", "t", " ", "O", "b", "j", "e", "c", "t", "]">>

\* Array.prototype.toString of an array of objects: their strings joined by ","
RECURSIVE ArrayToString(_)
ArrayToString(arr) ==
    IF arr = <<>> THEN <<>>
    ELSE IF Len(arr) = 1 THEN ObjectToString
    ELSE ObjectToString \o <<",">> \o ArrayToString(Tail(arr))

\* value?.toString() for the value of key k in the metadata object md: the
\* tags are an array of Tag objects, every other value is a string
ValueToString(md, k) ==
    IF k = "tags" THEN ArrayToString(md[k]) ELSE TextChars(md[k])

\* the callback of files.filter
MatchesQuery(file, search) ==
    LET query == toLowerCase(search)
    IN  \/ Contains(toLowerCase(NameChars(file.name)), query)
        \/ \E i \in 1..Len(file.tags) :
               \/ Contains(toLowerCase(TextChars(file.tags[i].key)), query)
               \/ Contains(toLowerCase(TextChars(file.tags[i].value)), query)
        \/ \E j \in 1..Len(file.metadata) :
               \E k \in DOMAIN file.metadata[j] :
                   Contains(toLowerCase(ValueToString(file.metadata[j], k)), query)

\* const filteredFiles = files.filter(...), computed at every render
filteredFiles == SelectSeq(files, LAMBDA file : MatchesQuery(file, searchQuery))

\* the checked attribute of the header checkbox
selectAllChecked ==
    Len(selectedFileNames) = Len(filteredFiles) /\ Len(filteredFiles) > 0

\* onChange of the header checkbox: a click hands over the opposite of what
\* the controlled checkbox shows
selectAllChange ==
    /\ Interactive
    /\ user \in {"select", "delete", "download"}
    /\ selectedFileNames' =
           IF ~selectAllChecked
           THEN [i \in 1..Len(filteredFiles) |-> filteredFiles[i].name]
           ELSE <<>>
    /\ selectedFileNames' # selectedFileNames
    /\ UNCHANGED <<propVars, namingVars, searchQuery, responses, lastConfirm, batches, phase, files, urlVars, loading, error, uploadVars,
                   batch, loads, net, bucketListVars,
                   previewVars>>

\* the X of the error banner
DismissError ==
    /\ Interactive
    /\ error # Null
    /\ error' = Null
    /\ UNCHANGED <<propVars, namingVars, searchQuery, responses, lastConfirm, batches, phase, files, urlVars, loading, uploadVars,
                   selectedFileNames, batch, loads, net, bucketListVars,
                   previewVars>>

(***************************************************************************)
(* FileList: handleUpload                                                  *)
(***************************************************************************)
\* onConfirm of the tag modal.  The loop's first uploadFile either throws on
\* the credentials (catch, finally) or issues its request.
handleUpload ==
    /\ Interactive
    /\ user \in {"upload"}
    /\ ModalShown
    /\ ~(selectedFiles = <<>> \/ uploading)
    /\ MayStartBatch
    /\ batches' = batches + 1
    /\ LoadBudget < MaxLoads
    /\ IF validateCredentials(accessKey, secretKey)
       THEN /\ uploading' = TRUE
            /\ error' = Null
            /\ progress' = Zero
            /\ batch' = Batch("upload", "sending", bucketName, selectedFiles, <<selectedFiles[1]>>)
            /\ net' = net \cup {Request("upload", bucketName, selectedFiles[1], 0,
                                         accessKey, secretKey)}
       ELSE /\ uploading' = FALSE
            /\ error' = CredentialsMessage
            /\ progress' = Zero
            /\ batch' = Batch("upload", "failed", bucketName, selectedFiles, <<>>)
            /\ net' = net
    /\ UNCHANGED <<propVars, namingVars, searchQuery, responses, lastConfirm, phase, files, urlVars, loading, showTagModal,
                   selectedFiles, selectedFileTags, selectedFileNames,
                   loads, bucketListVars,
                   previewVars>>

\* UploadFailure with `await loadFiles()` moved into the finally block
UploadFailureReloads(r, e) ==
    /\ r \in {q \in net : q.kind = "upload"}
    /\ e \in TransportErrors
    /\ StartLoad("effect", batch.bucket, net \ {r})
    /\ uploading' = Set(uploading, FALSE)
    /\ progress' = Set(progress, Zero)
    /\ batch' = [batch EXCEPT !.pc = "failed"]
    /\ UNCHANGED <<propVars, namingVars, searchQuery, responses, lastConfirm, batches, phase, files, urlVars, showTagModal,
                   selectedFiles, selectedFileTags, selectedFileNames,
                   bucketListVars, previewVars>>

\* UploadFailure with the success path's setSelectedFiles([]) and
\* setSelectedFileTags([]) moved into the finally block
UploadFailureClearsPending(r, e) ==
    /\ r \in {q \in net : q.kind = "upload"}
    /\ e \in TransportErrors
    /\ net' = net \ {r}
    /\ error' = Set(error, OrElse(handleApiError(e), "Failed to upload files."))
    /\ uploading' = Set(uploading, FALSE)
    /\ progress' = Set(progress, Zero)
    /\ selectedFiles' = Set(selectedFiles, <<>>)
    /\ selectedFileTags' = Set(selectedFileTags, <<>>)
    /\ batch' = [batch EXCEPT !.pc = "failed"]
    /\ UNCHANGED <<propVars, namingVars, searchQuery, responses, lastConfirm, batches, phase, files, urlVars, loading, showTagModal,
                   selectedFileNames,
                   loads, bucketListVars,
                   previewVars>>

\* uploadFile rejects: the loop is left; catch sets the error, finally
\* clears uploading and progress
UploadFailure(r, e) ==
    /\ r \in {q \in net : q.kind = "upload"}
    /\ e \in TransportErrors
    /\ net' = net \ {r}
    /\ error' = Set(error, OrElse(handleApiError(e), "Failed to upload files."))
    /\ uploading' = Set(uploading, FALSE)
    /\ progress' = Set(progress, Zero)
    /\ batch' = [batch EXCEPT !.pc = "failed"]
    /\ UNCHANGED <<propVars, namingVars, searchQuery, responses, lastConfirm, batches, phase, files, urlVars, loading, showTagModal,
                   selectedFiles, selectedFileTags, selectedFileNames,
                   loads, bucketListVars,
                   previewVars>>

\* uploadFile resolves: setProgress, then the next file's uploadFile, or
\* after the last file `await loadFiles()`
UploadSuccess(r) ==
    /\ r \in {q \in net : q.kind = "upload"}
    /\ LET i == Len(batch.sent)
           n == Len(batch.targets)
       IN  IF i < n
           THEN /\ progress' = Set(progress, Percent(i, n))
                /\ batch' = [batch EXCEPT !.sent = Append(@, batch.targets[i + 1])]
                /\ net' = (net \ {r}) \cup
                       {Request("upload", batch.bucket, batch.targets[i + 1], 0,
                                accessKey, secretKey)}
                /\ UNCHANGED <<loads, loading, error, uploading, showTagModal,
                               selectedFiles, selectedFileTags, selectedFileNames>>
           ELSE /\ StartLoad("upload", batch.bucket, net \ {r})
                /\ IF validateCredentials(accessKey, secretKey)
                   THEN /\ progress' = Set(progress, Percent(i, n))
                        /\ batch' = [batch EXCEPT !.pc = "reloading"]
                        /\ UNCHANGED <<uploading, showTagModal, selectedFiles,
                                       selectedFileTags, selectedFileNames>>
                   ELSE AfterLoad("upload", TRUE)
    /\ UNCHANGED <<propVars, namingVars, searchQuery, responses, lastConfirm, batches, phase, files, urlVars, bucketListVars,
                   previewVars>>

(***************************************************************************)
(* FileList: handleDelete                                                  *)
(***************************************************************************)
Names(entries) == [i \in 1..Len(entries) |-> entries[i].name]

\* the lists the buttons pass: the selection ("Delete Selected", disabled
\* when it is empty) or one listed file (its row's button)
ButtonTargets ==
    {<<files[i].name>> : i \in 1..Len(files)}
        \cup (IF selectedFileNames = <<>> THEN {} ELSE {selectedFileNames})

\* handleDelete without the `if` on window.confirm's answer
handleDeleteUnasked(fileNames, confirmed) ==
    /\ Interactive
    /\ user \in {"delete"}
    /\ fileNames \in ButtonTargets
    /\ MayStartBatch
    /\ batches' = batches + 1
    /\ LoadBudget < MaxLoads
    /\ lastConfirm' = <<confirmed>>
    /\ IF FALSE
       THEN /\ batch' = Batch("delete", "declined", bucketName, fileNames, <<>>)
            /\ UNCHANGED <<error, net>>
       ELSE IF validateCredentials(accessKey, secretKey)
       THEN /\ error' = Null
            /\ batch' = Batch("delete", "sending", bucketName, fileNames, <<fileNames[1]>>)
            /\ net' = net \cup {Request("delete", bucketName, fileNames[1], 0,
                                         accessKey, secretKey)}
       ELSE /\ error' = CredentialsMessage
            /\ batch' = Batch("delete", "failed", bucketName, fileNames, <<>>)
            /\ net' = net
    /\ UNCHANGED <<propVars, namingVars, searchQuery, responses, phase, files, urlVars, loading, uploadVars,
                   selectedFileNames, loads, bucketListVars, previewVars>>

\* window.confirm answered; one handleDelete runs at a time in the model.
\* Confirmed: setError(null), then the first deleteFile throws on the
\* credentials (catch) or issues its request.
handleDelete(fileNames, confirmed) ==
    /\ Interactive
    /\ user \in {"delete"}
    /\ fileNames \in ButtonTargets
    /\ MayStartBatch
    /\ batches' = batches + 1
    /\ LoadBudget < MaxLoads
    /\ lastConfirm' = <<confirmed>>
    /\ IF ~confirmed
       THEN /\ batch' = Batch("delete", "declined", bucketName, fileNames, <<>>)
            /\ UNCHANGED <<error, net>>
       ELSE IF validateCredentials(accessKey, secretKey)
       THEN /\ error' = Null
            /\ batch' = Batch("delete", "sending", bucketName, fileNames, <<fileNames[1]>>)
            /\ net' = net \cup {Request("delete", bucketName, fileNames[1], 0,
                                         accessKey, secretKey)}
       ELSE /\ error' = CredentialsMessage
            /\ batch' = Batch("delete", "failed", bucketName, fileNames, <<>>)
            /\ net' = net
    /\ UNCHANGED <<propVars, namingVars, searchQuery, responses, phase, files, urlVars, loading, uploadVars,
                   selectedFileNames, loads, bucketListVars, previewVars>>

\* DeleteFailure with the try/catch inside the loop: the error is set and
\* the loop goes on with the next target
DeleteFailureContinues(r, e) ==
    /\ r \in {q \in net : q.kind = "delete"}
    /\ e \in TransportErrors
    /\ error' = Set(error, OrElse(handleApiError(e), "Failed to delete files."))
    /\ LET i == Len(batch.sent)
           n == Len(batch.targets)
       IN  IF i < n
           THEN /\ batch' = [batch EXCEPT
                       !.sent = Append(@, batch.targets[i + 1])]
                /\ net' = (net \ {r}) \cup
                       {Request("delete", batch.bucket,
                                batch.targets[i + 1], 0, accessKey, secretKey)}
           ELSE /\ batch' = [batch EXCEPT !.pc = "failed"]
                /\ net' = net \ {r}
    /\ UNCHANGED <<propVars, namingVars, searchQuery, responses, lastConfirm, batches, phase, files, urlVars, loading, uploadVars,
                   selectedFileNames, loads, bucketListVars, previewVars>>

\* deleteFile rejects: the loop is left and catch sets the error
DeleteFailure(r, e) ==
    /\ r \in {q \in net : q.kind = "delete"}
    /\ e \in TransportErrors
    /\ net' = net \ {r}
    /\ error' = Set(error, OrElse(handleApiError(e), "Failed to delete files."))
    /\ batch' = [batch EXCEPT !.pc = "failed"]
    /\ UNCHANGED <<propVars, namingVars, searchQuery, responses, lastConfirm, batches, phase, files, urlVars, loading, uploadVars,
                   selectedFileNames, loads, bucketListVars,
                   previewVars>>

\* DeleteSuccess without `await loadFiles()` after the last target
DeleteSuccessNoReload(r) ==
    /\ r \in {q \in net : q.kind = "delete"}
    /\ LET i == Len(batch.sent)
           n == Len(batch.targets)
       IN  IF i < n
           THEN /\ batch' = [batch EXCEPT
                       !.sent = Append(@, batch.targets[i + 1])]
                /\ net' = (net \ {r}) \cup
                       {Request("delete", batch.bucket, batch.targets[i + 1],
                                0, accessKey, secretKey)}
                /\ UNCHANGED <<loads, loading, error, uploadVars, selectedFileNames>>
           ELSE /\ net' = net \ {r}
                /\ UNCHANGED <<loads, loading, error>>
                /\ AfterLoad("delete", TRUE)
    /\ UNCHANGED <<propVars, namingVars, searchQuery, responses, lastConfirm, batches, phase, files, urlVars,
                   bucketListVars, previewVars>>

\* deleteFile resolves: the next target's deleteFile, or after the last one
\* `await loadFiles()`
DeleteSuccess(r) ==
    /\ r \in {q \in net : q.kind = "delete"}
    /\ LET i == Len(batch.sent)
           n == Len(batch.targets)
       IN  IF i < n
           THEN /\ batch' = [batch EXCEPT
                       !.sent = Append(@, batch.targets[i + 1])]
                /\ net' = (net \ {r}) \cup
                       {Request("delete", batch.bucket, batch.targets[i + 1],
                                0, accessKey, secretKey)}
                /\ UNCHANGED <<loads, loading, error, uploadVars, selectedFileNames>>
           ELSE /\ StartLoad("delete", batch.bucket, net \ {r})
                /\ IF validateCredentials(accessKey, secretKey)
                   THEN /\ batch' = [batch EXCEPT !.pc = "reloading"]
                        /\ UNCHANGED <<uploadVars, selectedFileNames>>
                   ELSE AfterLoad("delete", TRUE)
    /\ UNCHANGED <<propVars, namingVars, searchQuery, responses, lastConfirm, batches, phase, files, urlVars, bucketListVars,
                   previewVars>>

(***************************************************************************)
(* FileList: handleDownload                                                *)
(***************************************************************************)
\* a row's download button passes [file.name]; the handler takes any list,
\* and the model also passes it the selection.  One handleDownload runs at
\* a time in the model.
handleDownload(fileNames) ==
    /\ Interactive
    /\ user \in {"download"}
    /\ fileNames \in ButtonTargets
    /\ MayStartBatch
    /\ batches' = batches + 1
    /\ IF validateCredentials(accessKey, secretKey)
       THEN /\ batch' = Batch("download", "sending", bucketName, fileNames, <<fileNames[1]>>)
            /\ net' = net \cup {Request("download", bucketName, fileNames[1], 0,
                                         accessKey, secretKey)}
            /\ error' = error
       ELSE /\ batch' = Batch("download", "failed", bucketName, fileNames, <<>>)
            /\ net' = net
            /\ error' = CredentialsMessage
    /\ UNCHANGED <<propVars, namingVars, searchQuery, responses, lastConfirm, phase, files, urlVars, loading, uploadVars,
                   selectedFileNames, loads, bucketListVars,
                   previewVars>>

\* DownloadFailure with the try/catch inside the loop: the error is set and
\* the loop goes on with the next target
DownloadFailureContinues(r, e) ==
    /\ r \in {q \in net : q.kind = "download"}
    /\ e \in TransportErrors
    /\ error' = Set(error, OrElse(handleApiError(e), "Failed to download files."))
    /\ LET i == Len(batch.sent)
           n == Len(batch.targets)
       IN  IF i < n
           THEN /\ batch' = [batch EXCEPT
                       !.sent = Append(@, batch.targets[i + 1])]
                /\ net' = (net \ {r}) \cup
                       {Request("download", batch.bucket,
                                batch.targets[i + 1], 0, accessKey, secretKey)}
           ELSE /\ batch' = [batch EXCEPT !.pc = "failed"]
                /\ net' = net \ {r}
    /\ UNCHANGED <<propVars, namingVars, searchQuery, responses, lastConfirm, batches, phase, files, urlVars, loading, uploadVars,
                   selectedFileNames, loads, bucketListVars, previewVars>>

\* downloadFile rejects inside the try that wraps the whole loop: the loop
\* is left and catch sets the error
DownloadFailure(r, e) ==
    /\ r \in {q \in net : q.kind = "download"}
    /\ e \in TransportErrors
    /\ net' = net \ {r}
    /\ error' = Set(error, OrElse(handleApiError(e), "Failed to download files."))
    /\ batch' = [batch EXCEPT !.pc = "failed"]
    /\ UNCHANGED <<propVars, namingVars, searchQuery, responses, lastConfirm, batches, phase, files, urlVars, loading, uploadVars,
                   selectedFileNames, loads, bucketListVars,
                   previewVars>>

\* DownloadSuccess without window.URL.revokeObjectURL(url)
DownloadSuccessKeepsUrl(r) ==
    /\ r \in {q \in net : q.kind = "download"}
    /\ LET i == Len(batch.sent)
           n == Len(batch.targets)
           url == createObjectURL("handleDownload", batches, r.name)
       IN  /\ liveUrls' = liveUrls \cup {url}
           /\ IF i < n
              THEN /\ batch' = [batch EXCEPT
                          !.sent = Append(@, batch.targets[i + 1])]
                   /\ net' = (net \ {r}) \cup
                          {Request("download", batch.bucket,
                                   batch.targets[i + 1], 0, accessKey, secretKey)}
              ELSE /\ batch' = [batch EXCEPT !.pc = "done"]
                   /\ net' = net \ {r}
    /\ UNCHANGED <<propVars, namingVars, searchQuery, responses, lastConfirm, batches, phase, files, imageObjectUrls,
                   releasedTwice, loading, error, uploadVars,
                   selectedFileNames, loads, bucketListVars,
                   previewVars>>

\* downloadFile resolves: an object URL is created for the blob, clicked and
\* revoked within the same task; then the next target's downloadFile
DownloadSuccess(r) ==
    /\ r \in {q \in net : q.kind = "download"}
    /\ LET i == Len(batch.sent)
           n == Len(batch.targets)
           url == createObjectURL("handleDownload", batches, r.name)
       IN  /\ liveUrls' = (liveUrls \cup {url}) \ {url}
           /\ IF i < n
              THEN /\ batch' = [batch EXCEPT
                          !.sent = Append(@, batch.targets[i + 1])]
                   /\ net' = (net \ {r}) \cup
                          {Request("download", batch.bucket,
                                   batch.targets[i + 1], 0, accessKey, secretKey)}
              ELSE /\ batch' = [batch EXCEPT !.pc = "done"]
                   /\ net' = net \ {r}
    /\ UNCHANGED <<propVars, namingVars, searchQuery, responses, lastConfirm, batches, phase, files, imageObjectUrls,
                   releasedTwice, loading, error, uploadVars,
                   selectedFileNames, loads, bucketListVars,
                   previewVars>>

(***************************************************************************)
(* FileList: handlePreviewImage and the ImagePreview it renders            *)
(***************************************************************************)
\* a click on a row's thumbnail.  The ImagePreview overlay covers the list,
\* so a thumbnail is clicked when no preview is open.  previewImage throws on
\* the credentials (catch) or issues its request.
handlePreviewImage(fileName) ==
    /\ Interactive
    /\ user = "preview"
    /\ previewImage = <<>>
    /\ \E i \in 1..Len(files) : files[i].name = fileName
    /\ isImageFile(fileName)
    /\ MayStartBatch
    /\ batches' = batches + 1
    /\ IF validateCredentials(accessKey, secretKey)
       THEN /\ batch' = Batch("preview", "sending", bucketName, <<fileName>>, <<fileName>>)
            /\ net' = net \cup {Request("previewImage", bucketName, fileName, 0,
                                         accessKey, secretKey)}
            /\ error' = error
       ELSE /\ batch' = Batch("preview", "failed", bucketName, <<fileName>>, <<>>)
            /\ net' = net
            /\ error' = "Failed to preview image."
    /\ UNCHANGED <<propVars, namingVars, searchQuery, responses, lastConfirm, phase, files, urlVars, loading, uploadVars,
                   selectedFileNames, loads, bucketListVars, previewVars>>

\* previewImage rejects: catch sets a fixed message
PreviewImageFailure(r, e) ==
    /\ r \in {q \in net : q.kind = "previewImage"}
    /\ e \in TransportErrors
    /\ net' = net \ {r}
    /\ error' = Set(error, "Failed to preview image.")
    /\ batch' = [batch EXCEPT !.pc = "failed"]
    /\ UNCHANGED <<propVars, namingVars, searchQuery, responses, lastConfirm, batches, phase, files, urlVars, loading, uploadVars,
                   selectedFileNames, loads, bucketListVars, previewVars>>

\* previewImage resolves with an object URL for the blob; setPreviewImage
\* renders an ImagePreview, whose effect fetches that URL.  The effect runs
\* after the first render only (its dependencies are src and the
\* credentials), so the imageSrc its closures see (effectImageSrc) is null
PreviewImageSuccess(r) ==
    /\ r \in {q \in net : q.kind = "previewImage"}
    /\ LET imageUrl == createObjectURL("previewImage", batches, r.name)
       IN  /\ liveUrls' = liveUrls \cup {imageUrl}
           /\ previewImage' = Set(previewImage, <<imageUrl>>)
           /\ IF phase = "mounted"
              THEN /\ imagePreview' = <<[src |-> imageUrl, imageSrc |-> <<>>,
                                         effectImageSrc |-> <<>>,
                                         loading |-> TRUE, error |-> Null]>>
                   /\ net' = (net \ {r}) \cup
                          {Request("image", r.bucket, r.name, batches,
                                   accessKey, secretKey)}
              ELSE /\ imagePreview' = imagePreview
                   /\ net' = net \ {r}
    /\ batch' = [batch EXCEPT !.pc = "done"]
    /\ UNCHANGED <<propVars, namingVars, searchQuery, responses, lastConfirm, batches, phase, files, imageObjectUrls, releasedTwice,
                   loading, error, uploadVars, selectedFileNames, loads,
                   bucketListVars>>

\* the ImagePreview that issued r is still rendered
ImagePreviewMounted(r) ==
    /\ phase = "mounted"
    /\ imagePreview # <<>>
    /\ imagePreview[1].src.load = r.load

\* fetchImage of ImagePreview settles: with a 2xx response it creates an
\* object URL for the blob and keeps it as imageSrc
ImageFetched(r, ok) ==
    /\ r \in {q \in net : q.kind = "image"}
    /\ net' = net \ {r}
    /\ LET objectUrl == createObjectURL("ImagePreview", r.load, r.name)
       IN  IF ok
           THEN /\ liveUrls' = liveUrls \cup {objectUrl}
                /\ imagePreview' =
                       IF ImagePreviewMounted(r)
                       THEN <<[imagePreview[1] EXCEPT
                                   !.imageSrc = <<objectUrl>>, !.loading = FALSE]>>
                       ELSE imagePreview
           ELSE /\ liveUrls' = liveUrls
                /\ imagePreview' =
                       IF ImagePreviewMounted(r)
                       THEN <<[imagePreview[1] EXCEPT
                                   !.error = "Failed to load image.",
                                   !.loading = FALSE]>>
                       ELSE imagePreview
    /\ UNCHANGED <<propVars, namingVars, searchQuery, responses, lastConfirm, batches, phase, files, imageObjectUrls, releasedTwice,
                   loading, error, uploadVars, selectedFileNames, loads, batch,
                   previewImage, bucketListVars>>

\* the URLs the effect cleanup of an ImagePreview revokes: the copy in
\* FileList.tsx has no cleanup; that of BucketList.tsx revokes the imageSrc
\* its closure holds, if any
ImagePreviewCleanup(preview) == Range(preview.effectImageSrc)

\* Close of the ImagePreview: setPreviewImage(null) removes it
ClosePreview ==
    /\ Interactive
    /\ user = "preview"
    /\ previewImage # <<>>
    /\ previewImage' = <<>>
    /\ imagePreview' = <<>>
    /\ liveUrls' = IF imagePreview = <<>> THEN liveUrls
                   ELSE liveUrls \ ImagePreviewCleanup(imagePreview[1])
    /\ UNCHANGED <<propVars, namingVars, searchQuery, responses, lastConfirm, batches, phase, files,
                   imageObjectUrls, releasedTwice, loading, error, uploadVars,
                   selectedFileNames, loads, batch, net, bucketListVars>>

FileListNext ==
    \/ Mount
    \/ \E b \in Buckets : SwitchBucket(b)
    \/ Unmount
    \/ \E r \in net, e \in TransportErrors : ListFailure(r, e)
    \/ \E r \in net, body \in UNION {ListingBodies(b) : b \in Buckets} :
           ListSuccess(r, body)
    \/ \E r \in net : MetadataResponse(r, <<>>)
    \/ \E r \in net : MetadataResponse(r, <<ServerMetadata(r.name)>>)
    \/ \E r \in net, ok \in BOOLEAN : PreviewResponse(r, ok)
    \/ \E fileList \in PendingLists : handleFileSelect(fileList)
    \/ \E tags \in TagChoices : TagsChange(tags)
    \/ ModalClose
    \/ \E i \in 1..Len(files) : toggleFileSelection(files[i].name)
    \/ selectAllChange
    \/ DismissError
    \/ \E query \in SearchQueries : SearchChange(query)
    \/ handleUpload
    \/ \E r \in net, e \in TransportErrors : UploadFailure(r, e)
    \/ \E r \in net : UploadSuccess(r)
    \/ \E fileNames \in ButtonTargets, confirmed \in BOOLEAN :
           handleDelete(fileNames, confirmed)
    \/ \E r \in net, e \in TransportErrors : DeleteFailure(r, e)
    \/ \E r \in net : DeleteSuccess(r)
    \/ \E fileNames \in ButtonTargets : handleDownload(fileNames)
    \/ \E r \in net, e \in TransportErrors : DownloadFailure(r, e)
    \/ \E r \in net : DownloadSuccess(r)
    \/ \E i \in 1..Len(files) : handlePreviewImage(files[i].name)
    \/ \E r \in net, e \in TransportErrors : PreviewImageFailure(r, e)
    \/ \E r \in net : PreviewImageSuccess(r)
    \/ \E r \in net, ok \in BOOLEAN : ImageFetched(r, ok)
    \/ ClosePreview

(***************************************************************************)
(* src/src/components/BucketList.tsx                                       *)
(***************************************************************************)
MinNameLength == 3
MaxNameLength == 63

Chars(str) ==
    CASE str = "bucket-" -> <<"b", "u", "c", "k", "e", "t", "-">>
      [] str = "xn--" -> <<"x", "n", "-", "-">>
      [] str = "-s3alias" -> <<"-", "s", "3", "a", "l", "i", "a", "s">>
      [] str = "-bucket" -> <<"-", "b", "u", "c", "k", "e", "t">>
      [] str = ".." -> <<".", ".">>
      [] str = "-." -> <<"-", ".">>
      [] str = ".-" -> <<".", "-">>

\* [a-z0-9.-]
AllowedChars == Range(LowerCase) \cup Digits \cup {".", "-"}

includes(s, sub) ==
    \E i \in 1..(Len(s) - Len(sub) + 1) : SubSeq(s, i, i + Len(sub) - 1) = sub

startsWith(s, prefix) ==
    Len(s) >= Len(prefix) /\ SubSeq(s, 1, Len(prefix)) = prefix

endsWith(s, suffix) ==
    Len(s) >= Len(suffix) /\ SubSeq(s, Len(s) - Len(suffix) + 1, Len(s)) = suffix

\* /^\d{1,3}(\.\d{1,3}){3}$/: four runs of one to three digits, dots between
ipAddressPattern(s) ==
    LET dots == {i \in 1..Len(s) : s[i] = "."}
    IN  /\ Cardinality(dots) = 3
        /\ \A i \in (1..Len(s)) \ dots : s[i] \in Digits
        /\ s[1] # "." /\ s[Len(s)] # "."
        /\ \A i \in dots : (i + 1) \notin dots
        /\ \A i \in 1..(Len(s) - 3) : \E j \in i..(i + 3) : j \in dots

\* /[^a-z0-9.-]/.test(name)
invalidCharactersPattern(s) == \E i \in 1..Len(s) : s[i] \notin AllowedChars

LengthReason == "Bucket name must be between 3 and 63 characters long."
CharactersReason ==
    "Bucket name can only contain lowercase letters, numbers, dots, and hyphens."
AdjacentReason ==
    "Bucket name must not contain two adjacent periods or a period adjacent to a hyphen."
IpReason == "Bucket name must not resemble an IP address."
PrefixReason == "Bucket name must not start with the prefix \"xn--\"."
SuffixReason == "Bucket name must not end with the suffix \"-s3alias\"."

\* validateBucketName with `<=` for `<` in the length test
validateBucketNameStrictLength(name) ==
    IF Len(name) <= MinNameLength \/ Len(name) > MaxNameLength THEN LengthReason
    ELSE IF invalidCharactersPattern(name) THEN CharactersReason
    ELSE IF includes(name, Chars("..")) \/ includes(name, Chars("-."))
            \/ includes(name, Chars(".-")) THEN AdjacentReason
    ELSE IF ipAddressPattern(name) THEN IpReason
    ELSE IF startsWith(name, Chars("xn--")) THEN PrefixReason
    ELSE IF endsWith(name, Chars("-s3alias")) THEN SuffixReason
    ELSE Null

\* validateBucketName with the character test moved before the length test
validateBucketNameCharactersFirst(name) ==
    IF invalidCharactersPattern(name) THEN CharactersReason
    ELSE IF Len(name) < MinNameLength \/ Len(name) > MaxNameLength THEN LengthReason
    ELSE IF includes(name, Chars("..")) \/ includes(name, Chars("-."))
            \/ includes(name, Chars(".-")) THEN AdjacentReason
    ELSE IF ipAddressPattern(name) THEN IpReason
    ELSE IF startsWith(name, Chars("xn--")) THEN PrefixReason
    ELSE IF endsWith(name, Chars("-s3alias")) THEN SuffixReason
    ELSE Null

\* the violation message, or Null
validateBucketName(name) ==
    IF Len(name) < MinNameLength \/ Len(name) > MaxNameLength THEN LengthReason
    ELSE IF invalidCharactersPattern(name) THEN CharactersReason
    ELSE IF includes(name, Chars("..")) \/ includes(name, Chars("-."))
            \/ includes(name, Chars(".-")) THEN AdjacentReason
    ELSE IF ipAddressPattern(name) THEN IpReason
    ELSE IF startsWith(name, Chars("xn--")) THEN PrefixReason
    ELSE IF endsWith(name, Chars("-s3alias")) THEN SuffixReason
    ELSE Null

\* s.replace(/\.\.|-\.|\.\-/g, '-'): matches are taken left to right and do
\* not overlap
RECURSIVE ReplaceAdjacent(_)
ReplaceAdjacent(s) ==
    IF Len(s) < 2 THEN s
    ELSE IF SubSeq(s, 1, 2) \in {Chars(".."), Chars("-."), Chars(".-")}
    THEN <<"-">> \o ReplaceAdjacent(SubSeq(s, 3, Len(s)))
    ELSE <<s[1]>> \o ReplaceAdjacent(Tail(s))

suggestAlternativeName(name) ==
    LET stripped == SelectSeq(toLowerCase(name), LAMBDA c : c \in AllowedChars)
        collapsed == ReplaceAdjacent(stripped)
        sized == IF Len(collapsed) < MinNameLength THEN Chars("bucket-") \o collapsed
                 ELSE IF Len(collapsed) > MaxNameLength
                 THEN SubSeq(collapsed, 1, MaxNameLength)
                 ELSE collapsed
        noIp == IF ipAddressPattern(sized) THEN Chars("bucket-") \o sized ELSE sized
        noPrefix == IF startsWith(noIp, Chars("xn--")) THEN Chars("bucket-") \o noIp
                    ELSE noIp
    IN  IF endsWith(noPrefix, Chars("-s3alias"))
        THEN SubSeq(noPrefix, 1, Len(noPrefix) - Len(Chars("-s3alias")))
                 \o Chars("-bucket")
        ELSE noPrefix

\* what the user may type into prompt('Enter bucket name:')
PromptNames ==
    { <<"M", "y", "_", "B", "u", "c", "k", "e", "t">>,
      <<"a", "b">>,
      <<"1", "9", "2", ".", "1", "6", "8", ".", "1", ".", "1">>,
      <<"l", "o", "g", "s">> }

\* the arrays a successful GET /buckets may return
BucketListings == {<<>>, <<"b1", "b2">>}

\* loadBuckets up to its await: loading, error, and the request unless
\* getBuckets throws on the credentials (catch, finally)
loadBuckets(netNow) ==
    IF validateCredentials(accessKey, secretKey)
    THEN /\ bucketsLoading' = TRUE
         /\ bucketsError' = Null
         /\ net' = netNow \cup {Request("buckets", "", "", 0, accessKey, secretKey)}
    ELSE /\ bucketsLoading' = FALSE
         /\ bucketsError' =
                "Failed to load buckets. Please check your access credentials."
         /\ net' = netNow

\* useEffect(..., [accessKey, secretKey]) after the first render
BucketListMount ==
    /\ component = "BucketList"
    /\ phase = "init"
    /\ phase' = "mounted"
    /\ IF ~Falsy(accessKey) /\ ~Falsy(secretKey)
       THEN loadBuckets(net)
       ELSE /\ bucketsError' = "Missing access credentials. Please log in again."
            /\ UNCHANGED <<bucketsLoading, net>>
    /\ UNCHANGED <<propVars, namingVars, searchQuery, responses, lastConfirm, batches, files, urlVars, loading, error, uploadVars,
                   selectedFileNames, previewVars, batch, loads, buckets, lastAlert>>

\* getBuckets settles (data = <<>>: it rejected; else <<the array>>)
BucketsResponse(r, data) ==
    /\ r \in {q \in net : q.kind = "buckets"}
    /\ data \in {<<>>} \cup {<<l>> : l \in BucketListings}
    /\ net' = net \ {r}
    /\ IF data = <<>>
       THEN /\ bucketsError' =
                   "Failed to load buckets. Please check your access credentials."
            /\ buckets' = buckets
       ELSE /\ buckets' = data[1]
            /\ bucketsError' = bucketsError
    /\ bucketsLoading' = FALSE
    /\ UNCHANGED <<propVars, namingVars, searchQuery, responses, lastConfirm, batches, phase, files, urlVars, loading, error,
                   uploadVars, selectedFileNames, previewVars, batch, loads, lastAlert>>

\* handleCreateBucket with the alert() moved after the call of createBucket
handleCreateBucketAlertsLate(name) ==
    /\ component = "BucketList"
    /\ phase = "mounted"
    /\ ~bucketsLoading /\ bucketsError = Null
    /\ batches < MaxBatches
    /\ batches' = batches + 1
    /\ name \in PromptNames
    /\ typedName' = name
    /\ LET validationError == validateBucketName(name)
           bucketNameToCreate ==
               IF validationError # Null THEN suggestAlternativeName(name) ELSE name
       IN  /\ IF validateCredentials(accessKey, secretKey)
              THEN /\ net' = net \cup {Request("create", "", bucketNameToCreate,
                                                batches + 1, accessKey, secretKey)}
                   /\ bucketsError' = bucketsError
              ELSE /\ net' = net
                   /\ bucketsError' = "Failed to create bucket. Please try again."
           /\ lastAlert' =
                  IF validationError # Null
                  THEN <<[reason |-> validationError, suggested |-> bucketNameToCreate,
                          inFlight |-> net']>>
                  ELSE <<>>
    /\ UNCHANGED <<propVars, violation, normalized, searchQuery, responses, lastConfirm, phase,
                   files, urlVars, loading, error, uploadVars,
                   selectedFileNames, previewVars, batch, loads, buckets, bucketsLoading>>

\* "Create New Folder" is rendered when neither loading nor error is set.
\* prompt() returned `name`; an invalid name is replaced by the suggestion and
\* that is alerted; then createBucket throws on the credentials (catch) or
\* issues its request
handleCreateBucket(name) ==
    /\ component = "BucketList"
    /\ phase = "mounted"
    /\ ~bucketsLoading /\ bucketsError = Null
    /\ batches < MaxBatches
    /\ batches' = batches + 1
    /\ name \in PromptNames
    /\ typedName' = name
    /\ LET validationError == validateBucketName(name)
           bucketNameToCreate ==
               IF validationError # Null THEN suggestAlternativeName(name) ELSE name
       IN  /\ lastAlert' =
                  IF validationError # Null
                  THEN <<[reason |-> validationError, suggested |-> bucketNameToCreate,
                          inFlight |-> net]>>
                  ELSE <<>>
           /\ IF validateCredentials(accessKey, secretKey)
              THEN /\ net' = net \cup {Request("create", "", bucketNameToCreate,
                                                batches + 1, accessKey, secretKey)}
                   /\ bucketsError' = bucketsError
              ELSE /\ net' = net
                   /\ bucketsError' = "Failed to create bucket. Please try again."
    /\ UNCHANGED <<propVars, violation, normalized, searchQuery, responses, lastConfirm, phase,
                   files, urlVars, loading, error, uploadVars,
                   selectedFileNames, previewVars, batch, loads, buckets, bucketsLoading>>

\* createBucket resolves: loadBuckets() is called (and not awaited)
CreateSuccess(r) ==
    /\ r \in {q \in net : q.kind = "create"}
    /\ loadBuckets(net \ {r})
    /\ UNCHANGED <<propVars, namingVars, searchQuery, responses, lastConfirm, batches, phase, files, urlVars, loading, error,
                   uploadVars, selectedFileNames, previewVars, batch, loads, buckets, lastAlert>>

\* createBucket rejects
CreateFailure(r) ==
    /\ r \in {q \in net : q.kind = "create"}
    /\ net' = net \ {r}
    /\ bucketsError' = "Failed to create bucket. Please try again."
    /\ UNCHANGED <<propVars, namingVars, searchQuery, responses, lastConfirm, batches, phase, files, urlVars, loading, error,
                   uploadVars, selectedFileNames, previewVars, batch, loads, buckets,
                   bucketsLoading, lastAlert>>

BucketListNext ==
    \/ BucketListMount
    \/ \E r \in net, l \in BucketListings : BucketsResponse(r, <<l>>)
    \/ \E r \in net : BucketsResponse(r, <<>>)
    \/ \E name \in PromptNames : handleCreateBucket(name)
    \/ \E r \in net : CreateSuccess(r)
    \/ \E r \in net : CreateFailure(r)

Next == FileListNext \/ BucketListNext

(***************************************************************************)
(* FileList: the three batch handlers invoked with no target.  The         *)
(* rendered controls never do that ("Delete Selected" is disabled while    *)
(* the selection is empty, the row buttons pass one name, the tag modal    *)
(* is rendered only for a non-empty pending list); here the handlers are   *)
(* called directly, as their signatures allow.                             *)
(***************************************************************************)
HandlerInit ==
    /\ component = "FileList"
    /\ user = "invoke"
    /\ phase = "init"
    /\ bucketName \in Buckets
    /\ accessKey \in CredentialValues
    /\ secretKey \in CredentialValues
    /\ files = <<>>
    /\ imageObjectUrls = EmptyMap
    /\ loading = TRUE
    /\ error = Null
    /\ uploading = FALSE
    /\ showTagModal = FALSE
    /\ selectedFiles = <<>>
    /\ selectedFileTags = <<>>
    /\ selectedFileNames = <<>>
    /\ progress = Zero
    /\ previewImage = <<>>
    /\ imagePreview = <<>>
    /\ loads = <<>>
    /\ batch = Batch("none", "idle", "", <<>>, <<>>)
    /\ batches = 0
    /\ net = {}
    /\ liveUrls = {}
    /\ releasedTwice = {}
    /\ buckets = <<>>
    /\ bucketsLoading = TRUE
    /\ bucketsError = Null
    /\ lastAlert = <<>>
    /\ typedName = <<>>
    /\ violation = <<>>
    /\ normalized = 0
    /\ lastConfirm = <<>>
    /\ searchQuery = <<>>
    /\ responses = <<>>

\* handleUpload() while selectedFiles is empty or an upload is running: it
\* returns at once
handleUploadReturns ==
    /\ Interactive
    /\ user = "invoke"
    /\ selectedFiles = <<>> \/ uploading
    /\ batches < MaxBatches
    /\ batches' = batches + 1
    /\ UNCHANGED <<propVars, namingVars, searchQuery, responses, lastConfirm, phase, files, urlVars, loading,
                   error, uploadVars, selectedFileNames, loads, batch, net,
                   bucketListVars, previewVars>>

\* handleDelete([]): window.confirm is asked; when confirmed, setError(null),
\* the loop over no target, then `await loadFiles()` (and, if getFiles throws
\* on the credentials, setSelectedFileNames([]) at once)
handleDeleteEmpty(confirmed) ==
    /\ Interactive
    /\ user = "invoke"
    /\ MayStartBatch
    /\ batches' = batches + 1
    /\ LoadBudget < MaxLoads
    /\ lastConfirm' = <<confirmed>>
    /\ IF ~confirmed
       THEN /\ batch' = Batch("delete", "declined", bucketName, <<>>, <<>>)
            /\ UNCHANGED <<error, net, loads, loading, selectedFileNames>>
       ELSE /\ StartLoad("delete", bucketName, net)
            /\ IF validateCredentials(accessKey, secretKey)
               THEN /\ batch' = Batch("delete", "reloading", bucketName, <<>>, <<>>)
                    /\ UNCHANGED selectedFileNames
               ELSE /\ batch' = Batch("delete", "done", bucketName, <<>>, <<>>)
                    /\ selectedFileNames' = <<>>
    /\ UNCHANGED <<propVars, namingVars, searchQuery, responses, phase, files, urlVars, uploadVars,
                   bucketListVars, previewVars>>

\* handleDownload([]): the loop over no target; nothing else runs
handleDownloadEmpty ==
    /\ Interactive
    /\ user = "invoke"
    /\ MayStartBatch
    /\ batches' = batches + 1
    /\ batch' = Batch("download", "done", bucketName, <<>>, <<>>)
    /\ UNCHANGED <<propVars, namingVars, searchQuery, responses, lastConfirm, phase, files, urlVars, loading,
                   error, uploadVars, selectedFileNames, loads, net,
                   bucketListVars, previewVars>>

HandlerNext ==
    \/ Mount
    \/ Unmount
    \/ \E r \in net, e \in TransportErrors : ListFailure(r, e)
    \/ \E r \in net, body \in UNION {ListingBodies(b) : b \in Buckets} :
           ListSuccess(r, body)
    \/ \E r \in net : MetadataResponse(r, <<>>)
    \/ \E r \in net : MetadataResponse(r, <<ServerMetadata(r.name)>>)
    \/ \E r \in net, ok \in BOOLEAN : PreviewResponse(r, ok)
    \/ \E i \in 1..Len(files) : toggleFileSelection(files[i].name)
    \/ DismissError
    \/ handleUploadReturns
    \/ \E confirmed \in BOOLEAN : handleDeleteEmpty(confirmed)
    \/ handleDownloadEmpty

HandlerSpec == HandlerInit /\ [][HandlerNext]_vars

(***************************************************************************)
(* FileList: one load whose responses are fixed beforehand (the listing,   *)
(* each file's metadata response, each image's preview response) and       *)
(* arrive in any order the awaits of loadFiles allow.                      *)
(***************************************************************************)
\* the responses the service may give to the requests of a load of bucket b
LoadResponses(b) ==
    UNION { LET names == Range(l)
                images == {n \in names : isImageFile(n)}
            IN  { [body |-> [isArray |-> TRUE, data |-> l], metadata |-> m,
                   preview |-> p] :
                      m \in {f \in [names -> {<<>>} \cup
                                              {<<ServerMetadata(n)>> : n \in names}] :
                                \A n \in names :
                                    f[n] \in {<<>>, <<ServerMetadata(n)>>}},
                      p \in [images -> BOOLEAN] }
          : l \in Listings(b) }

MergeInit ==
    /\ component = "FileList"
    /\ user = "merge"
    /\ phase = "init"
    /\ bucketName \in Buckets
    /\ accessKey = "key"
    /\ secretKey = "key"
    /\ files = <<>>
    /\ imageObjectUrls = EmptyMap
    /\ loading = TRUE
    /\ error = Null
    /\ uploading = FALSE
    /\ showTagModal = FALSE
    /\ selectedFiles = <<>>
    /\ selectedFileTags = <<>>
    /\ selectedFileNames = <<>>
    /\ progress = Zero
    /\ previewImage = <<>>
    /\ imagePreview = <<>>
    /\ loads = <<>>
    /\ batch = Batch("none", "idle", "", <<>>, <<>>)
    /\ batches = 0
    /\ net = {}
    /\ liveUrls = {}
    /\ releasedTwice = {}
    /\ buckets = <<>>
    /\ bucketsLoading = TRUE
    /\ bucketsError = Null
    /\ lastAlert = <<>>
    /\ typedName = <<>>
    /\ violation = <<>>
    /\ normalized = 0
    /\ lastConfirm = <<>>
    /\ searchQuery = <<>>
    /\ \E answers \in LoadResponses(bucketName) : responses = <<answers>>

MergeNext ==
    \/ Mount
    \/ \E r \in net : ListSuccess(r, responses[1].body)
    \/ \E r \in net : MetadataResponse(r, responses[1].metadata[r.name])
    \/ \E r \in net : PreviewResponse(r, responses[1].preview[r.name])

MergeSpec == MergeInit /\ [][MergeNext]_vars

(***************************************************************************)
(* FileList: the loads that bucket selections start, with every request    *)
(* of a load receiving its response at some time.                          *)
(***************************************************************************)
LoadInit == Init /\ component = "FileList" /\ user = "browse"

\* a request of some load receives its response
Respond ==
    \E r \in net :
        \/ \E e \in TransportErrors : ListFailure(r, e)
        \/ \E body \in UNION {ListingBodies(b) : b \in Buckets} : ListSuccess(r, body)
        \/ MetadataResponse(r, <<>>)
        \/ MetadataResponse(r, <<ServerMetadata(r.name)>>)
        \/ \E ok \in BOOLEAN : PreviewResponse(r, ok)

LoadNext ==
    \/ Mount
    \/ \E b \in Buckets : SwitchBucket(b)
    \/ Unmount
    \/ Respond
    \/ DismissError

LoadSpec == LoadInit /\ [][LoadNext]_vars /\ WF_vars(Respond)

(***************************************************************************)
(* BucketList: validateBucketName and suggestAlternativeName on their own. *)
(* A behaviour takes one string, validates it and normalizes it, again and *)
(* again.                                                                  *)
(***************************************************************************)
Repeat(c, n) == [i \in 1..n |-> c]

\* an uppercase and a lowercase letter, a digit, the two punctuation marks
\* of the grammar, and a character outside it
TypedAlphabet == {"a", "A", "1", ".", "-", "_"}

\* names that meet the rules on prefix, suffix, IP shape and length
LongNames ==
    { Chars("xn--") \o <<"a", "b">>,
      <<"X", "N", "-", "-", "a", "b">>,
      <<"a", "b">> \o Chars("-s3alias"),
      Chars("-s3alias"),
      Chars("xn--") \o Chars("-s3alias"),
      <<"1", ".", "1", ".", "1", ".", "1">>,
      <<"1", "9", "2", ".", "1", "6", "8", ".", "1", ".", "1">>,
      <<"1", "2", "3", "4", ".", "1", ".", "1", ".", "1">>,
      <<"1", ".", "1", ".", "1", ".", "1", ".", "1">>,
      <<"1", ".", "1", ".", "1", ".", "1", "_">>,
      <<"a", ".", ".", ".", "b">>,
      <<"a", ".", "_", ".", "b", "c">>,
      Repeat("a", MaxNameLength),
      Repeat("a", MaxNameLength + 1),
      Repeat("A", MaxNameLength + 1),
      Chars("xn--") \o Repeat("a", MaxNameLength - Len(Chars("xn--"))),
      Repeat("a", MaxNameLength - 1) \o Chars("-s3alias"),
      Repeat("a", MaxNameLength - Len(Chars("-s3alias"))) \o Chars("-s3alias") }

NamingInputs ==
    UNION {[1..k -> TypedAlphabet] : k \in 0..MaxTyped} \cup LongNames \cup PromptNames

NamingInit ==
    /\ component = "BucketList"
    /\ user = "naming"
    /\ phase = "init"
    /\ bucketName = ""
    /\ accessKey = "key"
    /\ secretKey = "key"
    /\ files = <<>>
    /\ imageObjectUrls = EmptyMap
    /\ loading = TRUE
    /\ error = Null
    /\ uploading = FALSE
    /\ showTagModal = FALSE
    /\ selectedFiles = <<>>
    /\ selectedFileTags = <<>>
    /\ selectedFileNames = <<>>
    /\ progress = Zero
    /\ previewImage = <<>>
    /\ imagePreview = <<>>
    /\ loads = <<>>
    /\ batch = Batch("none", "idle", "", <<>>, <<>>)
    /\ batches = 0
    /\ net = {}
    /\ liveUrls = {}
    /\ releasedTwice = {}
    /\ buckets = <<>>
    /\ bucketsLoading = TRUE
    /\ bucketsError = Null
    /\ lastAlert = <<>>
    /\ typedName \in NamingInputs
    /\ violation = <<>>
    /\ normalized = 0
    /\ lastConfirm = <<>>
    /\ searchQuery = <<>>
    /\ responses = <<>>

\* everything but the naming variables
componentVars ==
    <<propVars, phase, files, urlVars, loading, error, uploadVars,
      selectedFileNames, previewVars, loads, batch, batches, net, bucketListVars,
      lastConfirm, searchQuery, responses>>

\* validateBucketName(typedName) is called
Validate ==
    /\ user = "naming"
    /\ violation = <<>>
    /\ violation' = <<validateBucketName(typedName)>>
    /\ UNCHANGED <<componentVars, typedName, normalized>>

\* suggestAlternativeName(typedName) is called and its result is the string
\* from then on
Normalize ==
    /\ user = "naming"
    /\ normalized < MaxNormalize
    /\ typedName' = suggestAlternativeName(typedName)
    /\ normalized' = normalized + 1
    /\ violation' = <<>>
    /\ UNCHANGED componentVars

NamingNext == Validate \/ Normalize

NamingSpec == NamingInit /\ [][NamingNext]_vars

Spec == Init /\ [][Next]_vars

(***************************************************************************)
(* Properties                                                              *)
(***************************************************************************)
\* the messages handleApiError throws for the transport's failures
TransportMessages == {handleApiError(e) : e \in TransportErrors}

\* what a batch handler's catch can receive from an api function
FailureMessages == TransportMessages \cup {CredentialsMessage}

\* the object URLs loadImageWithHeaders created that are not revoked
PreviewHandles == {u \in liveUrls : u.by = "loadImageWithHeaders"}

\* the entries of files that isImageFile accepts
ImageFiles == {i \in 1..Len(files) : isImageFile(files[i].name)}

\* either credential is empty or missing
MissingCredentials == Falsy(accessKey) \/ Falsy(secretKey)

\* the requests a step takes a response for
Settled == net \ net'

\* C1: once a newer load has started, a response of an earlier load changes
\* neither the collection nor the handle map.
C1_StaleResponsesDiscarded ==
    [][\A r \in Settled :
           (r.kind \in {"list", "metadata", "preview"} /\ r.load < Len(loads))
               => (files' = files /\ imageObjectUrls' = imageObjectUrls)]_vars

\* C2: in every reachable state the number of live preview handles is at
\* most the number of image files of the current collection.
C2_HandlesBoundedByImages ==
    Cardinality(PreviewHandles) <= Cardinality(ImageFiles)

\* C3: when an upload of a batch fails, the step that handles the failure
\* issues no request (no later upload, no reload, nothing that undoes an
\* earlier upload), leaves no upload request in flight, starts no load and
\* sets the failure's message as the error of the mounted view.
C3_UploadFailureStops ==
    [][(/\ batch'.kind = "upload"
        /\ batch'.pc = "failed"
        /\ (batch.pc = "sending" \/ batches' # batches))
           => /\ net' \subseteq net
              /\ ~(\E q \in net' : q.kind = "upload")
              /\ loads' = loads
              /\ phase = "mounted" => error' \in FailureMessages]_vars

\* an upload batch of three files stopped at its second file, after the
\* initial load only
C3_Witness ==
    /\ batch.kind = "upload"
    /\ batch.pc = "failed"
    /\ Len(batch.targets) = 3
    /\ Len(batch.sent) = 2
    /\ error \in TransportMessages
    /\ Len(loads) = 1
    /\ net = {}

\* C4: the step that settles the last metadata request of a load never
\* fails the load and sets no error; the collection it publishes has every
\* listed entry in order, an entry whose request failed is the entry as
\* listed (no metadata), every other entry carries its own metadata.
C4_MetadataFailureTolerated ==
    [][\A ld \in 1..Len(loads) :
           (loads[ld].pc = "metadata" /\ loads'[ld].pc # "metadata") =>
               LET listed == loads[ld].filesData
                   failed == loads[ld].metadataErrors
               IN  /\ loads'[ld].pc \in {"previews", "ready"}
                   /\ error' = error
                   /\ phase = "mounted" =>
                          /\ Names(files') = Names(listed)
                          /\ \A i \in 1..Len(listed) :
                                 LET n == listed[i].name
                                     own == <<ServerMetadata(n)>>
                                 IN  /\ n \in failed => files'[i] = listed[i]
                                     /\ (loads[ld].filesWithTags[i] # <<>>
                                             /\ n \notin failed)
                                            => files'[i].metadata = own
                                     /\ files'[i].metadata \in {<<>>, own}
                                     /\ files'[i].metadata = <<>>
                                            => files'[i] = listed[i]]_vars

\* a finished load of two entries: the first has its metadata, the second's
\* request failed
C4_Witness ==
    /\ Len(loads) = 1
    /\ loads[1].pc = "ready"
    /\ ~loading
    /\ error = Null
    /\ Len(files) = 2
    /\ files[1].metadata = <<ServerMetadata(files[1].name)>>
    /\ files[2] = FileData(files[2].name)

\* C5: the step in which a load's listing fails leaves loading false, the
\* transport's message as the error, and an empty collection.
C5_FailedListingState ==
    [][\A ld \in 1..Len(loads) :
           (loads[ld].pc = "listing" /\ loads'[ld].pc = "failed"
                /\ phase = "mounted")
               => /\ loading' = FALSE
                  /\ error' \in TransportMessages
                  /\ files' = <<>>]_vars

\* C6 as stated: whenever a download's response is handled and later files
\* remain in the target list, the next file's fetch is issued.
C6_DownloadGoesOn ==
    [][\A r \in Settled :
           (r.kind = "download" /\ Len(batch.sent) < Len(batch.targets))
               => \E q \in net' :
                      /\ q.kind = "download"
                      /\ q.name = batch.targets[Len(batch.sent) + 1]]_vars

\* C6: a failed fetch stops a download batch: the step that handles the
\* failure issues no request, leaves no download request in flight and
\* sets the failure's message as the error of the mounted view; a step that
\* goes on to the next file sets no error.
C6_DownloadFailureStops ==
    [][/\ (/\ batch'.kind = "download"
           /\ batch'.pc = "failed"
           /\ (batch.pc = "sending" \/ batches' # batches))
              => /\ net' \subseteq net
                 /\ ~(\E q \in net' : q.kind = "download")
                 /\ phase = "mounted" => error' \in FailureMessages
       /\ \A r \in Settled :
              (r.kind = "download" /\ batch'.pc = "sending") => error' = error
      ]_vars

\* a download of two files stopped at its first file
C6_Witness ==
    /\ batch.kind = "download"
    /\ batch.pc = "failed"
    /\ Len(batch.targets) = 2
    /\ Len(batch.sent) = 1
    /\ error \in TransportMessages
    /\ ~(\E q \in net : q.kind = "download")

\* C7: a delete batch has at most one request in flight, for the target it
\* has reached in order; the step that handles a failed delete issues no
\* request (no later delete, nothing that restores a file) and sets the
\* failure's message as the error of the mounted view; a step that goes on
\* to the next target sets no error.
C7_DeleteSequentialStops ==
    [][/\ batch'.kind = "delete" =>
              LET sent == batch'.sent
                  flying == {q \in net' : q.kind = "delete"}
              IN  /\ Len(sent) <= Len(batch'.targets)
                  /\ sent = SubSeq(batch'.targets, 1, Len(sent))
                  /\ flying = IF batch'.pc = "sending"
                              THEN {Request("delete", batch'.bucket,
                                            sent[Len(sent)], 0,
                                            accessKey, secretKey)}
                              ELSE {}
       /\ (/\ batch'.kind = "delete"
           /\ batch'.pc = "failed"
           /\ (batch.pc = "sending" \/ batches' # batches))
              => /\ net' \subseteq net
                 /\ phase = "mounted" => error' \in FailureMessages
       /\ \A r \in Settled :
              (r.kind = "delete" /\ batch'.pc = "sending") => error' = error
      ]_vars

\* a delete of two files stopped at its first file
C7_Witness ==
    /\ batch.kind = "delete"
    /\ batch.pc = "failed"
    /\ Len(batch.targets) = 2
    /\ Len(batch.sent) = 1
    /\ error \in TransportMessages
    /\ net = {}

\* C8: in every reachable state at most one preview handle is live for a
\* file name.
C8_OneHandlePerName ==
    \A u, v \in PreviewHandles : u.name = v.name => u = v

\* C9: once the view is torn down and no request is in flight, no preview
\* handle is live and none was released twice.
C9_TeardownReleasesAll ==
    (phase = "unmounted" /\ net = {})
        => (PreviewHandles = {} /\ releasedTwice = {})

C11_SelectionReconciled ==
    [][\A ld \in 1..Len(loads) :
           (/\ loads[ld].pc \notin LoadDone
            /\ loads'[ld].pc = "ready"
            /\ phase = "mounted")
               => \A i \in 1..Len(selectedFileNames') :
                      \E j \in 1..Len(files') :
                          files'[j].name = selectedFileNames'[i]]_vars


\* C12: applying suggestAlternativeName to a string it produced gives that
\* string again.
C12_NormalizeIdempotent ==
    [][(normalized >= 1 /\ normalized' = normalized + 1)
           => typedName' = typedName]_vars

\* C13: a string suggestAlternativeName produced has no violation when
\* validateBucketName is applied to it.
C13_NormalizedIsValid ==
    (normalized >= 1 /\ violation # <<>>) => violation[1] = Null

\* the six rules of the naming grammar, each on its own
RuleLength(s) == Len(s) >= 3 /\ Len(s) <= 63
RuleCharacters(s) ==
    \A i \in 1..Len(s) : s[i] \in Range(LowerCase) \cup Digits \cup {".", "-"}
RuleAdjacent(s) ==
    \A i \in 1..(Len(s) - 1) :
        <<s[i], s[i + 1]>> \notin {<<".", ".">>, <<"-", ".">>, <<".", "-">>}
DigitRun(s, from, to) ==
    /\ to - from + 1 \in 1..3
    /\ \A i \in from..to : s[i] \in Digits
DottedQuad(s) ==
    \E a, b, c \in 1..Len(s) :
        /\ a < b /\ b < c
        /\ s[a] = "." /\ s[b] = "." /\ s[c] = "."
        /\ DigitRun(s, 1, a - 1) /\ DigitRun(s, a + 1, b - 1)
        /\ DigitRun(s, b + 1, c - 1) /\ DigitRun(s, c + 1, Len(s))
RuleIp(s) == ~DottedQuad(s)
RulePrefix(s) == ~(Len(s) >= 4 /\ SubSeq(s, 1, 4) = <<"x", "n", "-", "-">>)
RuleSuffix(s) ==
    ~(Len(s) >= 8 /\ SubSeq(s, Len(s) - 7, Len(s))
                         = <<"-", "s", "3", "a", "l", "i", "a", "s">>)

\* C14: validateBucketName reports no violation exactly for the names that
\* meet all six rules.
C14_ValidIffAllRules ==
    violation # <<>> =>
        (violation[1] = Null <=>
             /\ RuleLength(typedName) /\ RuleCharacters(typedName)
             /\ RuleAdjacent(typedName) /\ RuleIp(typedName)
             /\ RulePrefix(typedName) /\ RuleSuffix(typedName))

\* a name of the greatest length allowed was validated and has no violation
C14_Witness ==
    /\ normalized = 0
    /\ Len(typedName) = 63
    /\ violation = <<Null>>

\* C15: the six reasons are pairwise distinct, and the reason reported is
\* that of the first rule violated in the order length, characters,
\* adjacent punctuation, IP shape, prefix, suffix.
C15_FirstViolationReported ==
    /\ Cardinality({LengthReason, CharactersReason, AdjacentReason, IpReason,
                    PrefixReason, SuffixReason}) = 6
    /\ violation # <<>> =>
           violation[1] =
               IF ~RuleLength(typedName) THEN LengthReason
               ELSE IF ~RuleCharacters(typedName) THEN CharactersReason
               ELSE IF ~RuleAdjacent(typedName) THEN AdjacentReason
               ELSE IF ~RuleIp(typedName) THEN IpReason
               ELSE IF ~RulePrefix(typedName) THEN PrefixReason
               ELSE IF ~RuleSuffix(typedName) THEN SuffixReason
               ELSE Null

\* a name of allowed length with a character outside the grammar and with
\* adjacent punctuation was validated: the character reason is reported
C15_Witness ==
    /\ normalized = 0
    /\ RuleLength(typedName)
    /\ ~RuleCharacters(typedName)
    /\ ~RuleAdjacent(typedName)
    /\ violation = <<CharactersReason>>

\* C16: an upload batch has at most one request in flight, for the file it
\* has reached in pending-list order; the request for the next file is
\* issued in the step that takes the success of the previous one; and when
\* the i-th of n uploads succeeds, progress becomes (i / n) * 100.
C16_UploadSequentialProgress ==
    [][/\ batch'.kind = "upload" =>
              LET sent == batch'.sent
                  flying == {q \in net' : q.kind = "upload"}
              IN  /\ Len(sent) <= Len(batch'.targets)
                  /\ sent = SubSeq(batch'.targets, 1, Len(sent))
                  /\ flying = IF batch'.pc = "sending"
                              THEN {Request("upload", batch'.bucket,
                                            sent[Len(sent)], 0,
                                            accessKey, secretKey)}
                              ELSE {}
       /\ (/\ batch.kind = "upload" /\ batch'.kind = "upload"
           /\ batches' = batches
           /\ Len(batch'.sent) > Len(batch.sent))
              => /\ Len(batch'.sent) = Len(batch.sent) + 1
                 /\ \E r \in Settled :
                        r.kind = "upload" /\ r.name = batch.sent[Len(batch.sent)]
                 /\ error' = error
       /\ \A r \in Settled :
              (r.kind = "upload" /\ batch'.pc # "failed" /\ phase = "mounted")
                  => progress'.num * Len(batch.targets)
                         = Len(batch.sent) * 100 * progress'.den
      ]_vars

\* the first of three uploads has succeeded and the second is in flight:
\* progress is 100 / 3
C16_Witness ==
    /\ batch.kind = "upload"
    /\ batch.pc = "sending"
    /\ Len(batch.targets) = 3
    /\ Len(batch.sent) = 2
    /\ progress.num * 3 = 100 * progress.den
    /\ Cardinality({q \in net : q.kind = "upload"}) = 1

\* C17: the step that takes the success of the last upload of a batch
\* starts a load of the batch's bucket; the batch finishes only when that
\* load is over, and then the pending-file list is empty, progress is 0 and
\* uploading is false.
C17_UploadReloadsAndClears ==
    [][/\ \A r \in Settled :
              (/\ r.kind = "upload"
               /\ batch'.pc # "failed"
               /\ Len(batch.sent) = Len(batch.targets))
                  => /\ Len(loads') = Len(loads) + 1
                     /\ loads'[Len(loads')].bucket = batch.bucket
                     /\ Request("list", batch.bucket, "", Len(loads'),
                                accessKey, secretKey) \in net' \ net
                     /\ batch'.pc = "reloading"
       /\ (batch.kind = "upload" /\ batch.pc # "done" /\ batch'.pc = "done")
              => /\ batch.pc = "reloading"
                 /\ \E ld \in 1..Len(loads) :
                        /\ loads[ld].caller = "upload"
                        /\ loads[ld].pc \notin LoadDone
                        /\ loads'[ld].pc \in LoadDone
                 /\ phase = "mounted" =>
                        /\ selectedFiles' = <<>>
                        /\ progress' = Zero
                        /\ uploading' = FALSE
      ]_vars

\* a batch of three uploads has finished after its reload
C17_Witness ==
    /\ batch.kind = "upload"
    /\ batch.pc = "done"
    /\ Len(batch.targets) = 3
    /\ Len(loads) = 2
    /\ loads[2].caller = "upload"
    /\ loads[2].pc = "ready"
    /\ selectedFiles = <<>>
    /\ progress = Zero
    /\ ~uploading

\* C18: a delete request is issued only in a batch for which window.confirm
\* returned true; when it returns false the step issues no request, starts
\* no load and leaves the collection, the selection and the error as they
\* are.
C18_DeleteNeedsConfirmation ==
    [][/\ \A q \in net' \ net :
              q.kind = "delete" =>
                  /\ lastConfirm' = <<TRUE>>
                  /\ batch'.kind = "delete"
                  /\ q.name \in Range(batch'.targets)
       /\ (batches' # batches /\ batch'.kind = "delete"
               /\ lastConfirm' = <<FALSE>>)
              => /\ net' = net
                 /\ loads' = loads
                 /\ files' = files
                 /\ selectedFileNames' = selectedFileNames
                 /\ error' = error
      ]_vars

\* the user declined to delete the two selected files
C18_Witness ==
    /\ lastConfirm = <<FALSE>>
    /\ batch.kind = "delete"
    /\ batch.pc = "declined"
    /\ Len(batch.targets) = 2
    /\ selectedFileNames = batch.targets
    /\ Len(files) = 2
    /\ net = {}

\* C19: the step that takes the success of the last delete of a batch
\* starts a load of the batch's bucket; the batch finishes only when that
\* load is over, and then the selection is empty.
C19_DeleteReloadsAndClears ==
    [][/\ \A r \in Settled :
              (/\ r.kind = "delete"
               /\ batch'.pc # "failed"
               /\ Len(batch.sent) = Len(batch.targets))
                  => /\ Len(loads') = Len(loads) + 1
                     /\ loads'[Len(loads')].bucket = batch.bucket
                     /\ Request("list", batch.bucket, "", Len(loads'),
                                accessKey, secretKey) \in net' \ net
                     /\ batch'.pc = "reloading"
       /\ (batch.kind = "delete" /\ batch.pc # "done" /\ batch'.pc = "done")
              => /\ batch.pc = "reloading"
                 /\ \E ld \in 1..Len(loads) :
                        /\ loads[ld].caller = "delete"
                        /\ loads[ld].pc \notin LoadDone
                        /\ loads'[ld].pc \in LoadDone
                 /\ phase = "mounted" => selectedFileNames' = <<>>
      ]_vars

\* a confirmed delete of the two selected files has finished after its
\* reload
C19_Witness ==
    /\ lastConfirm = <<TRUE>>
    /\ batch.kind = "delete"
    /\ batch.pc = "done"
    /\ Len(batch.targets) = 2
    /\ Len(loads) = 2
    /\ loads[2].caller = "delete"
    /\ loads[2].pc = "ready"
    /\ selectedFileNames = <<>>
    /\ phase = "mounted"

\* C20: a handler invoked with no target issues no request, starts no load
\* and leaves the collection, the selection, progress and the error as they
\* are.
C20_EmptyTargetsNoOp ==
    [][(user = "invoke" /\ batches' # batches)
           => /\ net' = net
              /\ loads' = loads
              /\ files' = files
              /\ selectedFileNames' = selectedFileNames
              /\ progress' = progress
              /\ error' = error]_vars

\* the requests of loadFiles
LoadRequests == {r \in net : r.kind \in {"list", "metadata", "preview"}}

\* C21: within one load, metadata requests are issued only by the step that
\* receives the listing response, preview requests only by the step that
\* settles the load's last metadata request; so no metadata or preview
\* request of a load is in flight with its listing request, and no preview
\* request with one of its metadata requests.
C21_ListingBeforeFanOut ==
    [][/\ \A q \in net' \ net :
              /\ q.kind = "metadata" =>
                     \E r \in Settled : r.kind = "list" /\ r.load = q.load
              /\ q.kind = "preview" =>
                     /\ \E r \in Settled : r.kind = "metadata" /\ r.load = q.load
                     /\ loads[q.load].pc = "metadata"
                     /\ \A j \in 1..Len(loads[q.load].filesWithTags) :
                            \/ loads[q.load].filesWithTags[j] # <<>>
                            \/ \E r \in Settled :
                                   /\ r.kind = "metadata"
                                   /\ r.load = q.load
                                   /\ r.name = loads[q.load].filesData[j].name
       /\ \A q \in LoadRequests', r \in LoadRequests' :
              q.load = r.load =>
                  /\ r.kind = "list" => q = r
                  /\ r.kind = "metadata" => q.kind = "metadata"]_vars

\* both preview requests of a load are in flight after its two metadata
\* requests settled, one of them with a failure
C21_Witness ==
    /\ Len(loads) = 1
    /\ loads[1].pc = "previews"
    /\ Cardinality({q \in net : q.kind = "preview" /\ q.load = 1}) = 2
    /\ Len(files) = 2
    /\ files[1].metadata # <<>>
    /\ files[2].metadata = <<>>

\* C22: when a load whose responses are fixed is over, the collection is
\* the listing, in its order, each entry merged with its own metadata
\* response, and the handle map has exactly the images whose preview
\* response succeeded, each with the handle made for it: both are functions
\* of the responses, whatever the order in which they arrived.
C22_MergeCommutes ==
    (user = "merge" /\ Len(loads) = 1 /\ loads[1].pc = "ready") =>
        LET names == responses[1].body.data
            fetched == {n \in DOMAIN responses[1].preview : responses[1].preview[n]}
        IN  /\ files = [i \in 1..Len(names) |->
                           MetadataResult(FileData(names[i]),
                                          responses[1].metadata[names[i]])]
            /\ imageObjectUrls =
                   [n \in fetched |-> createObjectURL("loadImageWithHeaders", 1, n)]

\* a finished load of two images: the first has no metadata but a handle,
\* the second has metadata but no handle
C22_Witness ==
    /\ user = "merge"
    /\ Len(loads) = 1
    /\ loads[1].pc = "ready"
    /\ Names(files) = <<"c.JPG", "d.gif">>
    /\ files[1].metadata = <<>>
    /\ files[2].metadata # <<>>
    /\ DOMAIN imageObjectUrls = {"c.JPG"}

\* what the filter is to match on: the name, the tags' keys and values, and
\* the metadata values that are scalars (here: those that are strings)
MatchesScalars(file, search) ==
    LET query == toLowerCase(search)
    IN  \/ Contains(toLowerCase(NameChars(file.name)), query)
        \/ \E i \in 1..Len(file.tags) :
               \/ Contains(toLowerCase(TextChars(file.tags[i].key)), query)
               \/ Contains(toLowerCase(TextChars(file.tags[i].value)), query)
        \/ \E j \in 1..Len(file.metadata) :
               \E k \in DOMAIN file.metadata[j] \ {"tags"} :
                   Contains(toLowerCase(TextChars(file.metadata[j][k])), query)

\* C23: in every state the filtered view is the subsequence of files, in
\* order, of the entries whose name, or a tag's key or value, or a scalar
\* metadata value contains the query, case-insensitively; with the empty
\* query it is files.
C23_FilteredView ==
    /\ filteredFiles =
           SelectSeq(files, LAMBDA file : MatchesScalars(file, searchQuery))
    /\ searchQuery = <<>> => filteredFiles = files

\* C24: an error that is set is cleared only by the user's dismissal: a step
\* that clears it starts no load and no batch and issues no request.
C24_ErrorClearedOnlyByUser ==
    [][(error # Null /\ error' = Null)
           => (loads' = loads /\ batches' = batches /\ net' = net)]_vars

\* the entries on the screen: while loading is true the component renders
\* "Loading files..." instead of the table
ShownFiles == IF loading THEN <<>> ELSE files

\* C25: while the newest load has not merged its listing result (it waits
\* for the listing or for metadata), the mounted view shows no entry.
C25_NothingShownWhileLoading ==
    (/\ phase = "mounted"
     /\ loads # <<>>
     /\ loads[Len(loads)].pc \in {"listing", "metadata"})
        => ShownFiles = <<>>

\* C26: in a load whose listing succeeded no error is ever set and the load
\* never fails; when it is over, every listed image is an entry of the
\* collection, one whose preview fetch failed has no handle in the handle
\* map, and one whose preview fetch succeeded has its live handle there.
C26_PreviewFailureTolerated ==
    user = "merge" =>
        /\ error = Null
        /\ \A ld \in 1..Len(loads) : loads[ld].pc # "failed"
        /\ (Len(loads) = 1 /\ loads[1].pc = "ready") =>
               LET names == responses[1].body.data
               IN  /\ ~loading
                   /\ Names(files) = names
                   /\ \A n \in DOMAIN responses[1].preview :
                          IF responses[1].preview[n]
                          THEN /\ n \in DOMAIN imageObjectUrls
                               /\ imageObjectUrls[n] \in liveUrls
                          ELSE n \notin DOMAIN imageObjectUrls

\* a finished load of two images: the preview fetch of the first failed, that
\* of the second succeeded
C26_Witness ==
    /\ user = "merge"
    /\ Len(loads) = 1
    /\ loads[1].pc = "ready"
    /\ Names(files) = <<"c.JPG", "d.gif">>
    /\ ~responses[1].preview["c.JPG"]
    /\ DOMAIN imageObjectUrls = {"d.gif"}
    /\ error = Null

\* a step of handleDownload: its start, or a response to its request
DownloadStep ==
    \/ batches' # batches /\ batch'.kind = "download"
    \/ \E r \in Settled : r.kind = "download"

\* C27: no object URL made by handleDownload is live after any step (each is
\* revoked in the task that made it, before the next file is requested), and
\* a step of handleDownload changes neither the collection, nor the
\* selection, nor the preview-handle map.
C27_DownloadRetainsNothing ==
    [][/\ \A u \in liveUrls' : u.by # "handleDownload"
       /\ DownloadStep =>
              /\ files' = files
              /\ selectedFileNames' = selectedFileNames
              /\ imageObjectUrls' = imageObjectUrls
              /\ liveUrls' = liveUrls]_vars

\* a download of two selected files is over, the collection and the
\* selection as they were
C27_Witness ==
    /\ batch.kind = "download"
    /\ batch.pc = "done"
    /\ Len(batch.targets) = 2
    /\ batch.sent = batch.targets
    /\ selectedFileNames = batch.targets
    /\ Len(files) = 2
    /\ net = {}

\* C28: the step in which handleCreateBucket runs for the name the prompt
\* returned issues one create request.  For a name that fails validation the
\* request carries suggestAlternativeName(name), which differs from the name,
\* and the alert has shown the reason and that suggestion while the request
\* was not yet in flight; for a name that passes, the request carries the
\* name and no alert is shown.
C28_CreateCarriesShownName ==
    [][(component = "BucketList" /\ batches' # batches) =>
           LET name == typedName'
               reason == validateBucketName(name)
               created == {q \in net' \ net : q.kind = "create"}
           IN  /\ Cardinality(created) = 1
               /\ net' \ net = created
               /\ \A q \in created :
                      IF reason # Null
                      THEN /\ q.name = suggestAlternativeName(name)
                           /\ q.name # name
                           /\ lastAlert' # <<>>
                           /\ lastAlert'[1].reason = reason
                           /\ lastAlert'[1].suggested = q.name
                           /\ q \notin lastAlert'[1].inFlight
                      ELSE /\ q.name = name
                           /\ lastAlert' = <<>>]_vars

\* a create request for "mybucket" is in flight after the user typed
\* "My_Bucket" and was shown the reason and the suggestion
C28_Witness ==
    /\ component = "BucketList"
    /\ typedName = <<"M", "y", "_", "B", "u", "c", "k", "e", "t">>
    /\ lastAlert # <<>>
    /\ lastAlert[1].reason = CharactersReason
    /\ lastAlert[1].suggested = <<"m", "y", "b", "u", "c", "k", "e", "t">>
    /\ \E q \in net : q.kind = "create" /\ q.name = lastAlert[1].suggested

\* load ld is over in the primed state and was not before
Finishes(ld) ==
    /\ loads'[ld].pc \in LoadDone
    /\ ld > Len(loads) \/ loads[ld].pc \notin LoadDone

\* C29: again and again every load that has started is over, ready or
\* failed, and a load that is over stays as it is: so each load that starts
\* is eventually over for good.  The step in which a load ends leaves the
\* mounted view with loading false, with an error set when the load failed
\* and with the error as it was when the load is ready.
C29_LoadEnds ==
    /\ []<>(\A ld \in 1..Len(loads) : loads[ld].pc \in LoadDone)
    /\ [][\A ld \in 1..Len(loads') :
              /\ (ld <= Len(loads) /\ loads[ld].pc \in LoadDone)
                     => loads'[ld].pc = loads[ld].pc
              /\ (Finishes(ld) /\ phase' = "mounted")
                     => /\ loading' = FALSE
                        /\ loads'[ld].pc = "failed" => error' # Null
                        /\ loads'[ld].pc = "ready" => error' = error]_vars

\* two loads are over in the mounted view, the first failed and the second
\* ready
C29_Witness ==
    /\ user = "browse"
    /\ phase = "mounted"
    /\ Len(loads) = 2
    /\ loads[1].pc = "failed"
    /\ loads[2].pc = "ready"
    /\ ~loading
    /\ net = {}

\* C30: the step that removes the ImagePreview leaves no object URL live
\* that an ImagePreview created.
C30_PreviewUrlRevoked ==
    [][(imagePreview # <<>> /\ imagePreview' = <<>>)
           => \A u \in liveUrls' : u.by # "ImagePreview"]_vars

\* C31: in the mounted view loading is true whenever some load is not over.
C31_LoadingWhileInFlight ==
    (phase = "mounted" /\ \E ld \in 1..Len(loads) : loads[ld].pc \notin LoadDone)
        => loading

\* C32: in the view that shows the table, the header checkbox is checked
\* exactly when the filtered view is non-empty and each of its entries is in
\* the selection.
C32_SelectAllChecked ==
    Interactive =>
        (selectAllChecked <=>
            /\ Len(filteredFiles) > 0
            /\ \A i \in 1..Len(filteredFiles) :
                   filteredFiles[i].name \in Range(selectedFileNames))

\* the step in which an upload batch fails: its first uploadFile throws on
\* the credentials, or a later request is rejected
UploadFails ==
    /\ batch'.kind = "upload"
    /\ batch'.pc = "failed"
    /\ (batch.pc = "sending" \/ batches' # batches)

\* C33 as stated: at the step in which an upload batch fails, the pending
\* list and the tag set are the ones the batch started with, and the mounted
\* view has uploading false and progress 0.
C33_PendingAsAtBatchStart ==
    [][UploadFails
           => /\ selectedFiles' = batch'.targets
              /\ selectedFileTags' = batch'.tags
              /\ phase = "mounted" => (~uploading' /\ progress' = Zero)]_vars

\* C33 amended: no step of an upload batch up to and including its failure
\* (a request settled with the next one issued, or the failure itself)
\* changes the pending list or the tag set; a batch that fails on the
\* credentials leaves them as it found them; the failure step leaves the
\* mounted view with uploading false and progress 0.  Only the user's own
\* handlers (file picker, tag modal) change them while a batch runs.
C33_FailureKeepsPending ==
    [][/\ (/\ batch.kind = "upload"
           /\ batch.pc = "sending"
           /\ net' # net
           /\ batch'.pc \in {"sending", "failed"})
              => /\ selectedFiles' = selectedFiles
                 /\ selectedFileTags' = selectedFileTags
       /\ (UploadFails /\ batches' # batches)
              => /\ selectedFiles' = batch'.targets
                 /\ selectedFileTags' = batch'.tags
                 /\ selectedFiles' = selectedFiles
                 /\ selectedFileTags' = selectedFileTags
       /\ (UploadFails /\ phase = "mounted")
              => (~uploading' /\ progress' = Zero)]_vars

\* a tagged batch of three files failed at its second file: the pending list
\* and the tags are still those of the batch, nothing is uploading
C33_Witness ==
    /\ phase = "mounted"
    /\ batch.kind = "upload"
    /\ batch.pc = "failed"
    /\ Len(batch.targets) = 3
    /\ Len(batch.sent) = 2
    /\ batch.tags # <<>>
    /\ selectedFiles = batch.targets
    /\ selectedFileTags = batch.tags
    /\ ~uploading
    /\ progress = Zero
    /\ showTagModal

====
